---- MODULE Spec2Model ----
(***************************************************************************)
(* A model of the comment-processing pipeline of youtube_guard:            *)
(* routers/scheduler.py (process_comments), services/ai_service.py         *)
(* (analyze_comment), services/firestore_service.py (the record store and  *)
(* the daily statistics) and services/youtube_service.py (the comment      *)
(* source and moderation sink).  Every awaited call of the handler is one  *)
(* step; a remote call either takes effect and returns, or raises.         *)
(***************************************************************************)
EXTENDS Integers, Sequences, FiniteSets, TLC

\* ------------------------------------------------------------------ bounds

\* Longest list get_my_videos returns (the code asks for max_results=5).
MaxVideos == 2
\* Longest list get_comment_threads returns (the code asks for max_results=50).
MaxComments == 2
\* Number of batch invocations in a behaviour.
MaxRuns == 2
\* The number of logins and the number of clock ticks explored.
MaxSessions == 2
MaxClock == 4

VideoIds == 1..MaxVideos
CommentIds == {1, 2}

\* The request slots of the server: an invocation of process_comments (from
\* POST /api/scheduler/process, or from POST /api/comments/sync, which awaits
\* the same coroutine) runs in the lowest free slot.
Procs == {1, 2}

\* ---------------------------------------------------------------- helpers

Min(a, b) == IF a <= b THEN a ELSE b
Max(a, b) == IF a >= b THEN a ELSE b

Range(s) == {s[i] : i \in 1..Len(s)}

\* Sequences of distinct elements of S, of length at most n.
RECURSIVE DistinctSeqs(_, _)
DistinctSeqs(S, n) ==
    IF n = 0 \/ S = {} THEN {<<>>}
    ELSE {<<>>} \cup
         UNION {{<<x>> \o t : t \in DistinctSeqs(S \ {x}, n - 1)} : x \in S}

\* The comment threads of each video of the channel.  A thread belongs to
\* one video: either the most recent video has both threads, or the two most
\* recent videos have one each.
Channels ==
    { [v \in VideoIds |-> IF v = 1 THEN {1, 2} ELSE {}],
      [v \in VideoIds |-> IF v \in CommentIds THEN {v} ELSE {}] }

\* ------------------------------------------------------------------ models.py

POSITIVE == "positive"
QUESTION == "question"
CONSTRUCTIVE == "constructive"
COMPLAINT == "complaint"
TOXIC == "toxic"
CommentCategory == {POSITIVE, QUESTION, CONSTRUCTIVE, COMPLAINT, TOXIC}

PUBLISHED == "published"
HELD_FOR_REVIEW == "heldForReview"
REJECTED == "rejected"
ModerationStatus == {PUBLISHED, HELD_FOR_REVIEW, REJECTED}

\* ------------------------------------------------------------------ config.py

\* Settings() reads both thresholds from the environment and validates
\* neither; the first configuration is the default one.
DefaultSettings == [toxicity_threshold |-> 70, hold_threshold |-> 50]
Settings ==
    { DefaultSettings,
      [toxicity_threshold |-> 70, hold_threshold |-> 60],
      [toxicity_threshold |-> 50, hold_threshold |-> 70] }

\* ------------------------------------------------------- the comment source

\* The text of a comment is fixed by the source (textDisplay of the thread).
TextOf(c) == <<"text", c>>
\* The rewritten text the classifier proposes for a comment.
MildOf(c) == <<"mild", c>>

\* --------------------------------------------------------- the classifier

\* JSON values of the kinds the code distinguishes.  A float is held in
\* tenths; "numstr" is a string of decimal digits, "str" any other string.
JInt(n) == [k |-> "int", v |-> n]
JFloat(tenths) == [k |-> "float", v |-> tenths]
JNumStr(n) == [k |-> "numstr", v |-> n]
JStr == [k |-> "str", v |-> 0]
JNull == [k |-> "null", v |-> 0]

\* A text value (a string) or null, for mild_text.
Text(t) == [k |-> "str", v |-> t]
NoText == [k |-> "null", v |-> <<>>]

\* What generate_content returns, by the shape of response.text:
\*   "text"    not parseable as JSON,
\*   "array"   JSON that is no object,
\*   "object"  a JSON object holding the keys in `has`.
\* `fenced` says the text came wrapped in a ``` code block.
Response(shape, fenced, has, score, category, mild) ==
    [shape |-> shape, fenced |-> fenced, has |-> has, toxicity_score |-> score,
     category |-> category, reason |-> "reason", mild_text |-> mild]

AllKeys == {"toxicity_score", "category", "reason", "mild_text"}
Object(score, category, mild) ==
    Response("object", FALSE, AllKeys, score, category, mild)

\* The responses the model may give for comment c.  Every shape of response
\* is explored on the first thread; the other threads get a verdict of each
\* band and an unparseable answer.
Responses(c) ==
    IF c = 1
    THEN { Response("text", FALSE, {}, JNull, "", NoText),
           Response("array", FALSE, {}, JNull, "", NoText),
           Response("object", FALSE, {}, JNull, "", NoText),
           Response("object", TRUE, AllKeys, JInt(20), POSITIVE, Text(MildOf(c))),
           Object(JStr, COMPLAINT, Text(MildOf(c))),
           Object(JNull, TOXIC, Text(MildOf(c))),
           Object(JNumStr(85), TOXIC, Text(MildOf(c))),
           Object(JFloat(505), COMPLAINT, Text(MildOf(c))),
           Object(JInt(20), POSITIVE, Text(MildOf(c))),
           Object(JInt(85), TOXIC, Text(MildOf(c))),
           Object(JInt(49), QUESTION, NoText),
           Object(JInt(50), CONSTRUCTIVE, Text(<<>>)),
           Object(JInt(60), "spam", Text(MildOf(c))),
           Object(JInt(69), POSITIVE, Text(MildOf(c))),
           Object(JInt(70), COMPLAINT, Text(MildOf(c))),
           Object(JInt(-5), POSITIVE, Text(MildOf(c))),
           Object(JInt(130), TOXIC, Text(MildOf(c))) }
    ELSE { Response("text", FALSE, {}, JNull, "", NoText),
           Object(JInt(20), POSITIVE, Text(MildOf(c))),
           Object(JInt(60), QUESTION, Text(MildOf(c))),
           Object(JInt(85), TOXIC, Text(MildOf(c))) }

\* dict.get(key, default) on a parsed object.
Get(obj, key, default) == IF key \in obj.has THEN obj[key] ELSE default

\* Python's int(): an int is itself, a float is truncated toward zero, a
\* string of digits is parsed; any other string raises ValueError and None
\* raises TypeError.
int_raises(x) == x.k \in {"str", "null"}
int(x) ==
    CASE x.k = "int" -> x.v
      [] x.k = "numstr" -> x.v
      [] x.k = "float" -> IF x.v >= 0 THEN x.v \div 10 ELSE -((-x.v) \div 10)
      [] OTHER -> 0

\* The clamp without its lower bound.
Clamp_upper_only(n) == Min(100, n)

\* min(100, max(0, n))
Clamp(n) == Min(100, Max(0, n))

\* The map passing every name through.
category_map_open(name) == name

\* category_map.get(name, CommentCategory.COMPLAINT)
category_map(name) == IF name \in CommentCategory THEN name ELSE COMPLAINT

CommentAnalysis(score, category, reason, mild) ==
    [toxicity_score |-> score, category |-> category, reason |-> reason,
     mild_text |-> mild]

Returned(a) == [raised |-> FALSE, value |-> a]
Raised == [raised |-> TRUE, value |-> CommentAnalysis(0, COMPLAINT, "", NoText)]

\* The verdict substituted when json.loads raises JSONDecodeError.
ParseErrorAnalysis(text) == CommentAnalysis(50, COMPLAINT, "parse error", Text(text))

\* AIService.analyze_comment on the model's response r.  Stripping the code
\* fence leaves the JSON text, so a fenced response parses as its body does.
analyze_comment(text, r) ==
    IF r.shape = "text" THEN Returned(ParseErrorAnalysis(text))
    ELSE IF r.shape # "object" THEN Raised
    ELSE IF int_raises(Get(r, "toxicity_score", JInt(0))) THEN Raised
    ELSE Returned(CommentAnalysis(
             Clamp(int(Get(r, "toxicity_score", JInt(0)))),
             category_map(Get(r, "category", "")),
             Get(r, "reason", ""),
             Get(r, "mild_text", Text(text))))

\* ------------------------------------------------------------------- state

VARIABLES
    settings,             \* config.settings: the two thresholds
    threads,              \* the channel: video id -> ids of its comment threads
    moderationStatus,     \* YouTube: comment id -> the status last set for it
    comments_collection,  \* Firestore "comments": comment id -> document
    statistics,           \* Firestore "statistics": date -> counters
    today,                \* the current UTC date
    pc,                   \* where each invocation of process_comments stands
    result,               \* its ProcessingResult
    videos,               \* the list get_my_videos returned
    vi,                   \* index of the video the outer loop is at
    comments,             \* the list get_comment_threads returned
    ci,                   \* index of the comment the inner loop is at
    analysis,             \* the CommentAnalysis of the current comment
    moderation_status,    \* the status decided for the current comment
    calls,                \* the calls this invocation made to its collaborators
    before,               \* the "comments" collection as it was when it began
    runs,                 \* the number of invocations so far
    api,                  \* the dashboard / reply request being answered
    sessions,             \* auth._sessions: session id -> session, or None
    tokens,               \* the number of session ids drawn so far
    utcnow,               \* datetime.utcnow(), in ticks
    cookie                \* the session_id cookie the browser sends

vars == <<settings, threads, moderationStatus, comments_collection, statistics, today, pc, result, videos,
          vi, comments, ci, analysis, moderation_status, calls, before,
          runs, api,
          sessions, tokens, utcnow, cookie>>

stores == <<comments_collection, statistics>>
auth == <<sessions, tokens, utcnow, cookie>>
env == <<settings, threads, moderationStatus, today, runs, api, auth>>

Dates == 1..2

\* A document that does not exist (DocumentSnapshot.exists is False).
NoDoc == [exists |-> FALSE]

NoStats == [positive_count |-> 0, question_count |-> 0, constructive_count |-> 0,
            blocked_count |-> 0, total_processed |-> 0]

ProcessingResult(processed, hidden, held, errors) ==
    [processed_count |-> processed, hidden_count |-> hidden,
     held_count |-> held, errors |-> errors]

NoAnalysis == CommentAnalysis(0, COMPLAINT, "", NoText)

\* f"Error processing comment {comment_id}: {e}" and f"Processing job failed: {e}"
CommentError(c) == [kind |-> "comment", id |-> c]
JobError == [kind |-> "job", id |-> 0]

\* A response that is none: the call is not a classification, or the model
\* call itself raised.
NoResponse == Response("none", FALSE, {}, JNull, "", NoText)

\* One call to a collaborator: the operation, the comment ids it carried (or,
\* for get_comment_threads, returned), the moderation status it carried (""
\* when none), whether it returned (ok) or raised, and for a classification
\* the response the model gave.
Call(op, ids, status, ok, response) ==
    [op |-> op, ids |-> ids, status |-> status, ok |-> ok, response |-> response]

\* None, and the credentials JSON of a live session.
None == [none |-> TRUE]

\* The session ids secrets.token_urlsafe hands out, in the order drawn, and
\* the value of a request without a session_id cookie.
SessionIds == 1..MaxSessions
NoCookie == 0

\* timedelta(days=7), in ticks of the clock.
SessionLifetime == 2
Credentials == [none |-> FALSE]

\* One call a request handler made: the operation, its argument and whether
\* it returned (ok) or raised.
ApiCall(op, arg, ok) == [op |-> op, arg |-> arg, ok |-> ok]

\* A request and its outcome: the endpoint, its argument, the HTTP status, the
\* response body and the calls the handler made.
Request(op, arg, status, body, made) ==
    [op |-> op, arg |-> arg, status |-> status, body |-> body, calls |-> made]

\* raise HTTPException(status_code=status, ...)
HTTPException(op, arg, status, made) == Request(op, arg, status, None, made)

NoRequest == Request("none", None, 0, None, <<>>)

Init ==
    /\ settings \in Settings
    /\ threads \in Channels
    /\ moderationStatus = [c \in CommentIds |-> PUBLISHED]
    /\ comments_collection = [c \in CommentIds |-> NoDoc]
    /\ statistics = [d \in Dates |-> NoStats]
    /\ today = 1
    /\ pc = [p \in Procs |-> "idle"]
    /\ result = [p \in Procs |-> ProcessingResult(0, 0, 0, <<>>)]
    /\ videos = [p \in Procs |-> <<>>]
    /\ vi = [p \in Procs |-> 0]
    /\ comments = [p \in Procs |-> <<>>]
    /\ ci = [p \in Procs |-> 0]
    /\ analysis = [p \in Procs |-> NoAnalysis]
    /\ moderation_status = [p \in Procs |-> PUBLISHED]
    /\ calls = [p \in Procs |-> <<>>]
    /\ before = [p \in Procs |-> [c \in CommentIds |-> NoDoc]]
    /\ runs = 0
    /\ api = NoRequest
    /\ sessions = [sid \in SessionIds |-> None]
    /\ tokens = 0
    /\ utcnow = 0
    /\ cookie = NoCookie

\* The comment and the video the loops of invocation p are at.
comment_id(p) == comments[p][ci[p]]
video_id(p) == videos[p][vi[p]]

\* ------------------------------------------------ process_comments, by step

\* The decision rule with the thresholds read as exclusive ("above this score").
decide_exclusive(score, cfg) ==
    IF score > cfg.toxicity_threshold THEN REJECTED
    ELSE IF score > cfg.hold_threshold THEN HELD_FOR_REVIEW
    ELSE PUBLISHED

\* The decision rule of process_comments on a clamped score.
decide(score, cfg) ==
    IF score >= cfg.toxicity_threshold THEN REJECTED
    ELSE IF score >= cfg.hold_threshold THEN HELD_FOR_REVIEW
    ELSE PUBLISHED

\* The verdict's mild text taken as it is, without the fallback.
mild_text_as_given(mild, text) == mild.v

\* `analysis.mild_text or comment_data["text"]`: None and "" are falsy.
mild_text_or(mild, text) == IF mild.k = "null" \/ mild.v = <<>> THEN text ELSE mild.v

\* The document with needs_reply set for questions only.
Comment_questions_only(c, video, a, status) ==
    [exists |-> TRUE,
     video_id |-> video,
     original_text |-> TextOf(c),
     mild_text |-> mild_text_or(a.mild_text, TextOf(c)),
     category |-> a.category,
     toxicity_score |-> a.toxicity_score,
     moderation_status |-> status,
     needs_reply |-> a.category = QUESTION]

\* The document save_comment writes for Comment(...).
Comment(c, video, a, status) ==
    [exists |-> TRUE,
     video_id |-> video,
     original_text |-> TextOf(c),
     mild_text |-> mild_text_or(a.mild_text, TextOf(c)),
     category |-> a.category,
     toxicity_score |-> a.toxicity_score,
     moderation_status |-> status,
     needs_reply |-> a.category \in {QUESTION, CONSTRUCTIVE}]

\* The inner loop moves to the next comment, or the outer loop to the next
\* video when the list is exhausted.
next_comment(p) ==
    IF ci[p] < Len(comments[p])
    THEN /\ ci' = [ci EXCEPT ![p] = @ + 1]
         /\ pc' = [pc EXCEPT ![p] = "for_comment"]
         /\ vi' = vi
    ELSE /\ vi' = [vi EXCEPT ![p] = @ + 1]
         /\ pc' = [pc EXCEPT ![p] = "for_video"]
         /\ ci' = ci

\* A failure of one comment after which the comment is classified again.
comment_failed_retry(p) ==
    /\ result' = [result EXCEPT ![p].errors = Append(@, CommentError(comment_id(p)))]
    /\ pc' = [pc EXCEPT ![p] = "analyze_comment"]
    /\ UNCHANGED <<vi, ci>>

\* A failure of one comment that ends the batch instead of the comment.
comment_failed_abort(p) ==
    /\ result' = [result EXCEPT ![p].errors = Append(@, CommentError(comment_id(p)))]
    /\ pc' = [pc EXCEPT ![p] = "returned"]
    /\ UNCHANGED <<vi, ci>>

\* A failure of one comment that is also counted as processed.
comment_failed_counted(p) ==
    /\ result' = [result EXCEPT ![p].errors = Append(@, CommentError(comment_id(p))),
                                ![p].processed_count = @ + 1]
    /\ next_comment(p)

\* except Exception (inner): the error is recorded and the loop goes on.
comment_failed(p) ==
    /\ result' = [result EXCEPT ![p].errors = Append(@, CommentError(comment_id(p)))]
    /\ next_comment(p)

\* The batch-level handler returning a fresh result that holds only the error.
job_failed_reset(p) ==
    /\ result' = [result EXCEPT ![p] = ProcessingResult(0, 0, 0, <<JobError>>)]
    /\ pc' = [pc EXCEPT ![p] = "returned"]

\* The batch-level handler returning the result without recording the error.
job_failed_silent(p) ==
    /\ result' = result
    /\ pc' = [pc EXCEPT ![p] = "returned"]

\* except Exception (outer): the error is recorded and the result returned.
job_failed(p) ==
    /\ result' = [result EXCEPT ![p].errors = Append(@, JobError)]
    /\ pc' = [pc EXCEPT ![p] = "returned"]

Log(p, call) == calls' = [calls EXCEPT ![p] = Append(@, call)]

\* The handler is entered: the services are built and the result zeroed.
\* AIService() initialises Vertex AI and builds the GenerativeModel outside of
\* any try block, so an exception there propagates to the caller.
begin(p) ==
    /\ pc[p] = "idle"
    /\ \A q \in Procs : q < p => pc[q] # "idle"
    /\ runs < MaxRuns
    /\ runs' = runs + 1
    /\ result' = [result EXCEPT ![p] = ProcessingResult(0, 0, 0, <<>>)]
    /\ \/ pc' = [pc EXCEPT ![p] = "get_my_videos"]
       \/ pc' = [pc EXCEPT ![p] = "raised"]
    /\ before' = [before EXCEPT ![p] = comments_collection]
    /\ UNCHANGED <<stores, auth, settings, threads, moderationStatus, today, api, videos, vi, comments, ci,
                   analysis, moderation_status, calls>>

get_my_videos(p) ==
    /\ pc[p] = "get_my_videos"
    /\ \/ \E n \in 0..MaxVideos :
            /\ videos' = [videos EXCEPT ![p] = [i \in 1..n |-> i]]
            /\ vi' = [vi EXCEPT ![p] = 1]
            /\ pc' = [pc EXCEPT ![p] = "for_video"]
            /\ Log(p, Call("get_my_videos", <<>>, "", TRUE, NoResponse))
            /\ UNCHANGED result
       \/ /\ Log(p, Call("get_my_videos", <<>>, "", FALSE, NoResponse))
          /\ job_failed(p)
          /\ UNCHANGED <<videos, vi>>
    /\ UNCHANGED <<stores, env, comments, ci, analysis, moderation_status, before>>

get_comment_threads(p) ==
    /\ pc[p] = "for_video"
    /\ vi[p] <= Len(videos[p])
    /\ \/ \E cs \in DistinctSeqs(threads[video_id(p)], MaxComments) :
            /\ comments' = [comments EXCEPT ![p] = cs]
            /\ IF cs = <<>>
               THEN /\ vi' = [vi EXCEPT ![p] = @ + 1]
                    /\ UNCHANGED <<pc, ci>>
               ELSE /\ ci' = [ci EXCEPT ![p] = 1]
                    /\ pc' = [pc EXCEPT ![p] = "for_comment"]
                    /\ UNCHANGED vi
            /\ Log(p, Call("get_comment_threads", cs, "", TRUE, NoResponse))
            /\ UNCHANGED result
       \/ /\ Log(p, Call("get_comment_threads", <<>>, "", FALSE, NoResponse))
          /\ job_failed(p)
          /\ UNCHANGED <<comments, vi, ci>>
    /\ UNCHANGED <<stores, env, videos, analysis, moderation_status, before>>

\* The existence check with its answer ignored: every comment is treated as new.
comment_exists_ignored(p) ==
    /\ pc[p] = "for_comment"
    /\ Log(p, Call("comment_exists", <<comment_id(p)>>, "", TRUE, NoResponse))
    /\ pc' = [pc EXCEPT ![p] = "analyze_comment"]
    /\ UNCHANGED <<result, vi, ci, stores, env, videos, comments, analysis,
                   moderation_status, before>>

\* The existence check reporting a recorded comment as an error of the batch.
comment_exists_reported(p) ==
    /\ pc[p] = "for_comment"
    /\ Log(p, Call("comment_exists", <<comment_id(p)>>, "", TRUE, NoResponse))
    /\ IF comments_collection[comment_id(p)].exists
       THEN comment_failed(p)
       ELSE /\ pc' = [pc EXCEPT ![p] = "analyze_comment"]
            /\ UNCHANGED <<vi, ci, result>>
    /\ UNCHANGED <<stores, env, videos, comments, analysis, moderation_status, before>>

\* The existence check with its failure recorded for the comment alone.
comment_exists_isolated(p) ==
    /\ pc[p] = "for_comment"
    /\ \/ /\ Log(p, Call("comment_exists", <<comment_id(p)>>, "", TRUE, NoResponse))
          /\ IF comments_collection[comment_id(p)].exists
             THEN next_comment(p)
             ELSE /\ pc' = [pc EXCEPT ![p] = "analyze_comment"]
                  /\ UNCHANGED <<vi, ci>>
          /\ UNCHANGED result
       \/ /\ Log(p, Call("comment_exists", <<comment_id(p)>>, "", FALSE, NoResponse))
          /\ comment_failed(p)
    /\ UNCHANGED <<stores, env, videos, comments, analysis, moderation_status, before>>

comment_exists(p) ==
    /\ pc[p] = "for_comment"
    /\ \/ /\ Log(p, Call("comment_exists", <<comment_id(p)>>, "", TRUE, NoResponse))
          /\ IF comments_collection[comment_id(p)].exists
             THEN next_comment(p)
             ELSE /\ pc' = [pc EXCEPT ![p] = "analyze_comment"]
                  /\ UNCHANGED <<vi, ci>>
          /\ UNCHANGED result
       \/ /\ Log(p, Call("comment_exists", <<comment_id(p)>>, "", FALSE, NoResponse))
          /\ job_failed(p)
          /\ UNCHANGED <<vi, ci>>
    /\ UNCHANGED <<stores, env, videos, comments, analysis, moderation_status, before>>

\* The decision followed by a moderation call whatever the status.
decided_always_moderates(p, a) ==
    LET status == decide(a.toxicity_score, settings) IN
    /\ analysis' = [analysis EXCEPT ![p] = a]
    /\ moderation_status' = [moderation_status EXCEPT ![p] = status]
    /\ result' = [result EXCEPT
                    ![p].hidden_count = IF status = REJECTED THEN @ + 1 ELSE @,
                    ![p].held_count = IF status = HELD_FOR_REVIEW THEN @ + 1 ELSE @]
    /\ pc' = [pc EXCEPT ![p] = "set_moderation_status"]
    /\ UNCHANGED <<vi, ci>>

\* The decision without any counting.
decided_uncounted(p, a) ==
    LET status == decide(a.toxicity_score, settings) IN
    /\ analysis' = [analysis EXCEPT ![p] = a]
    /\ moderation_status' = [moderation_status EXCEPT ![p] = status]
    /\ result' = result
    /\ pc' = [pc EXCEPT ![p] = IF status # PUBLISHED THEN "set_moderation_status"
                                                      ELSE "save_comment"]
    /\ UNCHANGED <<vi, ci>>

\* The decision with a rejected comment counted as held.
decided_miscounted(p, a) ==
    LET status == decide(a.toxicity_score, settings) IN
    /\ analysis' = [analysis EXCEPT ![p] = a]
    /\ moderation_status' = [moderation_status EXCEPT ![p] = status]
    /\ result' = [result EXCEPT ![p].held_count = IF status # PUBLISHED THEN @ + 1 ELSE @]
    /\ pc' = [pc EXCEPT ![p] = IF status # PUBLISHED THEN "set_moderation_status"
                                                      ELSE "save_comment"]
    /\ UNCHANGED <<vi, ci>>

\* analyze_comment returned verdict a: the status is decided and counted.
decided(p, a) ==
    LET status == decide(a.toxicity_score, settings) IN
    /\ analysis' = [analysis EXCEPT ![p] = a]
    /\ moderation_status' = [moderation_status EXCEPT ![p] = status]
    /\ result' = [result EXCEPT
                    ![p].hidden_count = IF status = REJECTED THEN @ + 1 ELSE @,
                    ![p].held_count = IF status = HELD_FOR_REVIEW THEN @ + 1 ELSE @]
    /\ pc' = [pc EXCEPT ![p] = IF status # PUBLISHED THEN "set_moderation_status"
                                                      ELSE "save_comment"]
    /\ UNCHANGED <<vi, ci>>

analyze(p) ==
    /\ pc[p] = "analyze_comment"
    /\ \/ \E r \in Responses(comment_id(p)) :
            LET a == analyze_comment(TextOf(comment_id(p)), r) IN
            IF a.raised
            THEN /\ Log(p, Call("analyze_comment", <<comment_id(p)>>, "", FALSE, r))
                 /\ comment_failed(p)
                 /\ UNCHANGED <<analysis, moderation_status>>
            ELSE /\ Log(p, Call("analyze_comment", <<comment_id(p)>>, "", TRUE, r))
                 /\ decided(p, a.value)
       \/ \* generate_content raises: logged and raised again
          /\ Log(p, Call("analyze_comment", <<comment_id(p)>>, "", FALSE, NoResponse))
          /\ comment_failed(p)
          /\ UNCHANGED <<analysis, moderation_status>>
    /\ UNCHANGED <<stores, env, videos, comments, before>>

\* The moderation call with its failure swallowed: the record is saved anyway.
set_moderation_status_swallowed(p) ==
    /\ pc[p] = "set_moderation_status"
    /\ \E ok \in BOOLEAN :
          Log(p, Call("set_moderation_status", <<comment_id(p)>>, moderation_status[p],
                      ok, NoResponse))
    /\ pc' = [pc EXCEPT ![p] = "save_comment"]
    /\ UNCHANGED <<result, vi, ci, stores, env, videos, comments, analysis,
                   moderation_status, before>>

set_moderation_status(p) ==
    /\ pc[p] = "set_moderation_status"
    /\ \/ /\ Log(p, Call("set_moderation_status", <<comment_id(p)>>, moderation_status[p], TRUE, NoResponse))
          /\ moderationStatus' = [moderationStatus EXCEPT ![comment_id(p)] = moderation_status[p]]
          /\ pc' = [pc EXCEPT ![p] = "save_comment"]
          /\ UNCHANGED <<result, vi, ci>>
       \/ /\ Log(p, Call("set_moderation_status", <<comment_id(p)>>, moderation_status[p], FALSE, NoResponse))
          /\ comment_failed(p)
          /\ UNCHANGED moderationStatus
    /\ UNCHANGED <<stores, auth, settings, threads, today, runs, api, videos, comments, analysis,
                   moderation_status, before>>

\* The save that counts the comment twice.
save_comment_counted_twice(p) ==
    /\ pc[p] = "save_comment"
    /\ \/ /\ Log(p, Call("save_comment", <<comment_id(p)>>, moderation_status[p], TRUE, NoResponse))
          /\ comments_collection' =
                [comments_collection EXCEPT ![comment_id(p)] =
                    Comment(comment_id(p), video_id(p), analysis[p], moderation_status[p])]
          /\ result' = [result EXCEPT ![p].processed_count = @ + 2]
          /\ next_comment(p)
       \/ /\ Log(p, Call("save_comment", <<comment_id(p)>>, moderation_status[p], FALSE, NoResponse))
          /\ comment_failed(p)
          /\ UNCHANGED comments_collection
    /\ UNCHANGED <<statistics, env, videos, comments, analysis, moderation_status,
                   before>>

\* The save that leaves a document alone once it exists (create, not set).
save_comment_first_wins(p) ==
    /\ pc[p] = "save_comment"
    /\ \/ /\ Log(p, Call("save_comment", <<comment_id(p)>>, moderation_status[p], TRUE, NoResponse))
          /\ comments_collection' =
                IF comments_collection[comment_id(p)].exists
                THEN comments_collection
                ELSE [comments_collection EXCEPT ![comment_id(p)] =
                        Comment(comment_id(p), video_id(p), analysis[p], moderation_status[p])]
          /\ result' = [result EXCEPT ![p].processed_count = @ + 1]
          /\ next_comment(p)
       \/ /\ Log(p, Call("save_comment", <<comment_id(p)>>, moderation_status[p], FALSE, NoResponse))
          /\ comment_failed(p)
          /\ UNCHANGED comments_collection
    /\ UNCHANGED <<statistics, env, videos, comments, analysis, moderation_status,
                   before>>

\* The save whose failure leaves the document written all the same.
save_comment_torn(p) ==
    /\ pc[p] = "save_comment"
    /\ comments_collection' =
          [comments_collection EXCEPT ![comment_id(p)] =
              Comment(comment_id(p), video_id(p), analysis[p], moderation_status[p])]
    /\ \/ /\ Log(p, Call("save_comment", <<comment_id(p)>>, moderation_status[p], TRUE, NoResponse))
          /\ result' = [result EXCEPT ![p].processed_count = @ + 1]
          /\ next_comment(p)
       \/ /\ Log(p, Call("save_comment", <<comment_id(p)>>, moderation_status[p], FALSE, NoResponse))
          /\ comment_failed(p)
    /\ UNCHANGED <<statistics, env, videos, comments, analysis, moderation_status,
                   before>>

save_comment(p) ==
    /\ pc[p] = "save_comment"
    /\ \/ /\ Log(p, Call("save_comment", <<comment_id(p)>>, moderation_status[p], TRUE, NoResponse))
          /\ comments_collection' =
                [comments_collection EXCEPT ![comment_id(p)] =
                    Comment(comment_id(p), video_id(p), analysis[p], moderation_status[p])]
          /\ result' = [result EXCEPT ![p].processed_count = @ + 1]
          /\ next_comment(p)
       \/ /\ Log(p, Call("save_comment", <<comment_id(p)>>, moderation_status[p], FALSE, NoResponse))
          /\ comment_failed(p)
          /\ UNCHANGED comments_collection
    /\ UNCHANGED <<statistics, env, videos, comments, analysis, moderation_status,
                   before>>

\* The increment with the two deltas exchanged.
Increment_exchanged(doc, blocked_delta, processed_delta) ==
    [doc EXCEPT !.blocked_count = @ + processed_delta,
                !.total_processed = @ + blocked_delta]

\* The counters set to the deltas instead of incremented by them.
Increment_overwrite(doc, blocked_delta, processed_delta) ==
    [doc EXCEPT !.blocked_count = blocked_delta,
                !.total_processed = processed_delta]

\* The increment that also counts the processed comments as positive.
Increment_positive(doc, blocked_delta, processed_delta) ==
    [doc EXCEPT !.blocked_count = @ + blocked_delta,
                !.total_processed = @ + processed_delta,
                !.positive_count = @ + processed_delta]

\* firestore.Increment on the fields of today's document (merge=True).
Increment(doc, blocked_delta, processed_delta) ==
    [doc EXCEPT !.blocked_count = @ + blocked_delta,
                !.total_processed = @ + processed_delta]

\* The aggregate call counting every record of the store as processed.
update_statistics_counts_store(p) ==
    /\ pc[p] = "for_video"
    /\ vi[p] > Len(videos[p])
    /\ \/ /\ Log(p, Call("update_statistics", <<>>, "", TRUE, NoResponse))
          /\ statistics' = [statistics EXCEPT ![today] =
                Increment(@, result[p].hidden_count + result[p].held_count,
                          Cardinality({c \in CommentIds : comments_collection[c].exists}))]
          /\ pc' = [pc EXCEPT ![p] = "returned"]
          /\ UNCHANGED result
       \/ /\ Log(p, Call("update_statistics", <<>>, "", FALSE, NoResponse))
          /\ job_failed(p)
          /\ UNCHANGED statistics
    /\ UNCHANGED <<comments_collection, env, videos, vi, comments, ci, analysis,
                   moderation_status, before>>

update_statistics(p) ==
    /\ pc[p] = "for_video"
    /\ vi[p] > Len(videos[p])
    /\ \/ /\ Log(p, Call("update_statistics", <<>>, "", TRUE, NoResponse))
          /\ statistics' = [statistics EXCEPT ![today] =
                Increment(@, result[p].hidden_count + result[p].held_count,
                          result[p].processed_count)]
          /\ pc' = [pc EXCEPT ![p] = "returned"]
          /\ UNCHANGED result
       \/ /\ Log(p, Call("update_statistics", <<>>, "", FALSE, NoResponse))
          /\ job_failed(p)
          /\ UNCHANGED statistics
    /\ UNCHANGED <<comments_collection, env, videos, vi, comments, ci, analysis,
                   moderation_status, before>>

\* The response (or the exception) reaches the caller; the handler's frame
\* is gone.
respond(p) ==
    /\ pc[p] \in {"returned", "raised"}
    /\ pc' = [pc EXCEPT ![p] = "idle"]
    /\ result' = [result EXCEPT ![p] = ProcessingResult(0, 0, 0, <<>>)]
    /\ videos' = [videos EXCEPT ![p] = <<>>]
    /\ vi' = [vi EXCEPT ![p] = 0]
    /\ comments' = [comments EXCEPT ![p] = <<>>]
    /\ ci' = [ci EXCEPT ![p] = 0]
    /\ analysis' = [analysis EXCEPT ![p] = NoAnalysis]
    /\ moderation_status' = [moderation_status EXCEPT ![p] = PUBLISHED]
    /\ calls' = [calls EXCEPT ![p] = <<>>]
    /\ before' = [before EXCEPT ![p] = [c \in CommentIds |-> NoDoc]]
    /\ UNCHANGED <<stores, env>>

\* -------------------------------------------- the dashboard and reply routes

\* CommentSummary(...) built from a document of the query's result.
CommentSummary(c, data) ==
    [id |-> c,
     video_id |-> data.video_id,
     mild_text |-> data.mild_text,
     category |-> data.category,
     needs_reply |-> data.needs_reply]

\* The query without the toxicity_score filter (exclude_toxic false).
get_comments_by_category_unfiltered(category) ==
    {CommentSummary(c, comments_collection[c]) :
        c \in {d \in CommentIds :
                 /\ comments_collection[d].exists
                 /\ comments_collection[d].category = category}}

\* The documents the query selects: category == category.value and, with
\* exclude_toxic (the default), toxicity_score < settings.toxicity_threshold.
\* The limit (50) exceeds the number of comments and the order (published_at)
\* is not represented: the result is the set of summaries.
get_comments_by_category(category) ==
    {CommentSummary(c, comments_collection[c]) :
        c \in {d \in CommentIds :
                 /\ comments_collection[d].exists
                 /\ comments_collection[d].category = category
                 /\ comments_collection[d].toxicity_score < settings.toxicity_threshold}}

\* The three category names get_dashboard_comments reads, in its order.
DashboardCategories == <<POSITIVE, QUESTION, CONSTRUCTIVE>>

get_dashboard_comments ==
    [positive |-> get_comments_by_category(POSITIVE),
     questions |-> get_comments_by_category(QUESTION),
     constructive |-> get_comments_by_category(CONSTRUCTIVE)]

\* DashboardStats of today's document (zeros when it does not exist).
get_dashboard_stats == statistics[today]

\* Comment(...) built from the document, or None.
get_comment(c) ==
    IF ~comments_collection[c].exists
    THEN None
    ELSE [none |-> FALSE,
          id |-> c,
          video_id |-> comments_collection[c].video_id,
          original_text |-> comments_collection[c].original_text,
          mild_text |-> comments_collection[c].mild_text,
          category |-> comments_collection[c].category,
          toxicity_score |-> comments_collection[c].toxicity_score,
          moderation_status |-> comments_collection[c].moderation_status,
          needs_reply |-> comments_collection[c].needs_reply]

\* The update replacing the document by one that holds only the two fields.
mark_as_replied_overwrites(doc) ==
    [exists |-> TRUE, needs_reply |-> FALSE, replied_at |-> today]

\* document(comment_id).update({"needs_reply": False, "replied_at": now})
mark_as_replied(doc) ==
    [f \in DOMAIN doc \cup {"replied_at"} |->
        IF f = "needs_reply" THEN FALSE
        ELSE IF f = "replied_at" THEN today
        ELSE doc[f]]

\* No batch is running and no request is being answered.
Quiet == api = NoRequest /\ \A p \in Procs : pc[p] = "idle"

\* The calls of get_dashboard_comments followed by get_dashboard_stats, cut
\* after the n-th; the last one raised when failed.
SummaryCalls(n, failed) ==
    [i \in 1..n |->
        IF i <= Len(DashboardCategories)
        THEN ApiCall("get_comments_by_category", DashboardCategories[i], ~(failed /\ i = n))
        ELSE ApiCall("get_dashboard_stats", None, ~(failed /\ i = n))]

\* GET /summary
get_comments_summary ==
    /\ Quiet
    /\ \/ api' = Request("summary", None, 200,
                         [comments |-> get_dashboard_comments,
                          stats |-> get_dashboard_stats],
                         SummaryCalls(Len(DashboardCategories) + 1, FALSE))
       \/ \E n \in 1..(Len(DashboardCategories) + 1) :
             api' = HTTPException("summary", None, 500, SummaryCalls(n, TRUE))
    /\ UNCHANGED <<auth, settings, threads, moderationStatus, today, runs, stores, pc, result, videos, vi,
                   comments, ci, analysis, moderation_status, calls, before>>

\* The category read answering toxic as any other category.
category_route_unguarded(category) ==
    /\ Quiet
    /\ \/ api' = Request("category", category, 200, get_comments_by_category(category),
                         <<ApiCall("get_comments_by_category", category, TRUE)>>)
       \/ api' = HTTPException("category", category, 500,
                               <<ApiCall("get_comments_by_category", category, FALSE)>>)
    /\ UNCHANGED <<auth, settings, threads, moderationStatus, today, runs, stores, pc, result, videos, vi,
                   comments, ci, analysis, moderation_status, calls, before>>

\* GET /category/{category}
category_route(category) ==
    /\ Quiet
    /\ IF category = TOXIC
       THEN api' = HTTPException("category", category, 400, <<>>)
       ELSE \/ api' = Request("category", category, 200,
                              get_comments_by_category(category),
                              <<ApiCall("get_comments_by_category", category, TRUE)>>)
            \/ api' = HTTPException("category", category, 500,
                                    <<ApiCall("get_comments_by_category", category, FALSE)>>)
    /\ UNCHANGED <<auth, settings, threads, moderationStatus, today, runs, stores, pc, result, videos, vi,
                   comments, ci, analysis, moderation_status, calls, before>>

\* GET /stats
get_stats ==
    /\ Quiet
    /\ \/ api' = Request("stats", None, 200, get_dashboard_stats,
                         <<ApiCall("get_dashboard_stats", None, TRUE)>>)
       \/ api' = HTTPException("stats", None, 500,
                               <<ApiCall("get_dashboard_stats", None, FALSE)>>)
    /\ UNCHANGED <<auth, settings, threads, moderationStatus, today, runs, stores, pc, result, videos, vi,
                   comments, ci, analysis, moderation_status, calls, before>>

\* The reply id the YouTube API assigns.
ReplyId(c) == <<"reply", c>>

\* The text the model proposes as a reply to comment_text.
SuggestionFor(comment_text) == <<"suggestion", comment_text>>

\* The handler's outcomes once the record is known to exist and the caller
\* has credentials: the post raises, the post succeeds and the update
\* raises, or both succeed and the document is updated.
post_and_mark(c, got) ==
    \/ /\ api' = HTTPException("reply", c, 500,
                   got \o <<ApiCall("reply_to_comment", c, FALSE)>>)
       /\ UNCHANGED comments_collection
    \/ /\ api' = HTTPException("reply", c, 500,
                   got \o <<ApiCall("reply_to_comment", c, TRUE),
                            ApiCall("mark_as_replied", c, FALSE)>>)
       /\ UNCHANGED comments_collection
    \/ /\ api' = Request("reply", c, 200, [success |-> TRUE, reply_id |-> ReplyId(c)],
                   got \o <<ApiCall("reply_to_comment", c, TRUE),
                            ApiCall("mark_as_replied", c, TRUE)>>)
       /\ comments_collection' = [comments_collection EXCEPT ![c] = mark_as_replied(@)]

\* The reply handler marking the record before it posts the reply.
reply_to_comment_marks_first(c, credentials_json) ==
    /\ Quiet
    /\ LET got == <<ApiCall("get_comment", c, TRUE)>> IN
       IF get_comment(c) = None
       THEN /\ api' = HTTPException("reply", c, 404, got)
            /\ UNCHANGED comments_collection
       ELSE \/ /\ api' = HTTPException("reply", c, 500,
                           got \o <<ApiCall("mark_as_replied", c, TRUE),
                                    ApiCall("reply_to_comment", c, FALSE)>>)
               /\ comments_collection' =
                     [comments_collection EXCEPT ![c] = mark_as_replied(@)]
            \/ /\ api' = Request("reply", c, 200,
                           [success |-> TRUE, reply_id |-> ReplyId(c)],
                           got \o <<ApiCall("mark_as_replied", c, TRUE),
                                    ApiCall("reply_to_comment", c, TRUE)>>)
               /\ comments_collection' =
                     [comments_collection EXCEPT ![c] = mark_as_replied(@)]
    /\ UNCHANGED <<auth, settings, threads, moderationStatus, today, runs, statistics, pc, result, videos, vi,
                   comments, ci, analysis, moderation_status, calls, before>>

\* The reply handler without the check that the record exists.
reply_to_comment_unchecked(c, credentials_json) ==
    /\ Quiet
    /\ IF credentials_json = None
       THEN /\ api' = HTTPException("reply", c, 401, <<>>)
            /\ UNCHANGED comments_collection
       ELSE /\ api' = Request("reply", c, 200,
                         [success |-> TRUE, reply_id |-> ReplyId(c)],
                         <<ApiCall("reply_to_comment", c, TRUE)>>)
            /\ UNCHANGED comments_collection
    /\ UNCHANGED <<auth, settings, threads, moderationStatus, today, runs, statistics, pc, result, videos, vi,
                   comments, ci, analysis, moderation_status, calls, before>>

\* POST /{comment_id}/reply, with the credentials get_user_credentials finds
\* for the request's session cookie (None when there is no live session): the
\* handler, whatever else the service is doing.
reply_to_comment_body(c, credentials_json) ==
    /\ api = NoRequest
    /\ \/ /\ api' = HTTPException("reply", c, 500, <<ApiCall("get_comment", c, FALSE)>>)
          /\ UNCHANGED comments_collection
       \/ LET got == <<ApiCall("get_comment", c, TRUE)>> IN
          IF get_comment(c) = None
          THEN /\ api' = HTTPException("reply", c, 404, got)
               /\ UNCHANGED comments_collection
          ELSE IF credentials_json = None
          THEN /\ api' = HTTPException("reply", c, 401, got)
               /\ UNCHANGED comments_collection
          ELSE post_and_mark(c, got)
    /\ UNCHANGED <<auth, settings, threads, moderationStatus, today, runs, statistics, pc, result, videos, vi,
                   comments, ci, analysis, moderation_status, calls, before>>

\* The reply request answered while no batch is running.
reply_to_comment(c, credentials_json) ==
    /\ Quiet
    /\ reply_to_comment_body(c, credentials_json)

\* A reply generator that asks the model whatever the category.
generate_reply_suggestion_any(comment_text, category, model_ok) ==
    IF model_ok
    THEN [suggestion |-> SuggestionFor(comment_text),
          calls |-> <<ApiCall("generate_content", comment_text, TRUE)>>]
    ELSE [suggestion |-> None,
          calls |-> <<ApiCall("generate_content", comment_text, FALSE)>>]

\* AIService.generate_reply_suggestion: its result and the model calls it
\* made, model_ok telling whether a model call returns or raises.
generate_reply_suggestion(comment_text, category, model_ok) ==
    IF category = TOXIC
    THEN [suggestion |-> None, calls |-> <<>>]
    ELSE IF model_ok
    THEN [suggestion |-> SuggestionFor(comment_text),
          calls |-> <<ApiCall("generate_content", comment_text, TRUE)>>]
    ELSE [suggestion |-> None,
          calls |-> <<ApiCall("generate_content", comment_text, FALSE)>>]

\* POST /{comment_id}/suggest-reply
suggest_reply(c) ==
    /\ Quiet
    /\ \/ api' = HTTPException("suggest", c, 500, <<ApiCall("get_comment", c, FALSE)>>)
       \/ LET got == <<ApiCall("get_comment", c, TRUE)>>
              comment == get_comment(c) IN
          IF comment = None
          THEN api' = HTTPException("suggest", c, 404, got)
          ELSE \/ api' = HTTPException("suggest", c, 500,
                            got \o <<ApiCall("AIService", None, FALSE)>>)
               \/ \E model_ok \in BOOLEAN :
                     LET r == generate_reply_suggestion(comment.mild_text,
                                                        comment.category, model_ok) IN
                     api' = Request("suggest", c, 200,
                                    [comment_id |-> c, suggestion |-> r.suggestion],
                                    got \o <<ApiCall("AIService", None, TRUE)>> \o r.calls)
    /\ UNCHANGED <<auth, settings, threads, moderationStatus, today, runs, stores, pc, result, videos, vi,
                   comments, ci, analysis, moderation_status, calls, before>>

\* The response has been sent.
deliver ==
    /\ api # NoRequest
    /\ api' = NoRequest
    /\ UNCHANGED <<auth, settings, threads, moderationStatus, today, runs, stores, pc, result, videos, vi,
                   comments, ci, analysis, moderation_status, calls, before>>

\* datetime.now(timezone.utc).strftime("%Y-%m-%d") changes: the UTC day ends.
midnight ==
    /\ today + 1 \in Dates
    /\ today' = today + 1
    /\ UNCHANGED <<auth, settings, threads, moderationStatus, runs, api, stores, pc, result, videos, vi,
                   comments, ci, analysis, moderation_status, calls, before>>

\* A batch that starts while no other invocation is in progress.
begin_alone(p) ==
    /\ \A q \in Procs \ {p} : pc[q] = "idle"
    /\ api = NoRequest
    /\ begin(p)

\* One batch at a time.
Next ==
    \E p \in Procs :
        \/ midnight
        \/ begin_alone(p)
        \/ get_my_videos(p)
        \/ get_comment_threads(p)
        \/ comment_exists(p)
        \/ analyze(p)
        \/ set_moderation_status(p)
        \/ save_comment(p)
        \/ update_statistics(p)
        \/ respond(p)

Spec == Init /\ [][Next]_vars

\* Batches, one at a time, and between them the requests of the dashboard.
NextApi ==
    \E p \in Procs :
        \/ begin_alone(p)
        \/ get_my_videos(p)
        \/ get_comment_threads(p)
        \/ comment_exists(p)
        \/ analyze(p)
        \/ set_moderation_status(p)
        \/ save_comment(p)
        \/ update_statistics(p)
        \/ respond(p)
        \/ get_comments_summary
        \/ \E category \in CommentCategory : category_route(category)
        \/ get_stats
        \/ \E c \in CommentIds, credentials_json \in {None, Credentials} :
              reply_to_comment(c, credentials_json)
        \/ \E c \in CommentIds : suggest_reply(c)
        \/ deliver

SpecApi == Init /\ [][NextApi]_vars

\* The instance stops in the middle of a batch: the handler's frame is lost
\* and nothing is returned; what the collaborators hold stays as it is.
crash(p) ==
    /\ pc[p] \notin {"idle", "returned", "raised", "crashed"}
    /\ pc' = [pc EXCEPT ![p] = "crashed"]
    /\ result' = [result EXCEPT ![p] = ProcessingResult(0, 0, 0, <<>>)]
    /\ videos' = [videos EXCEPT ![p] = <<>>]
    /\ vi' = [vi EXCEPT ![p] = 0]
    /\ comments' = [comments EXCEPT ![p] = <<>>]
    /\ ci' = [ci EXCEPT ![p] = 0]
    /\ analysis' = [analysis EXCEPT ![p] = NoAnalysis]
    /\ moderation_status' = [moderation_status EXCEPT ![p] = PUBLISHED]
    /\ calls' = [calls EXCEPT ![p] = <<>>]
    /\ before' = [before EXCEPT ![p] = [c \in CommentIds |-> NoDoc]]
    /\ UNCHANGED <<stores, env>>

\* A new instance is started and serves the next trigger.
restart(p) ==
    /\ pc[p] = "crashed"
    /\ pc' = [pc EXCEPT ![p] = "idle"]
    /\ UNCHANGED <<stores, env, result, videos, vi, comments, ci, analysis,
                   moderation_status, calls, before>>

\* The service with the default thresholds of config.py.
InitRerun == Init /\ settings = DefaultSettings

\* Batches, one at a time, each of which may stop half-way.
NextRerun ==
    \E p \in Procs :
        \/ begin_alone(p)
        \/ get_my_videos(p)
        \/ get_comment_threads(p)
        \/ comment_exists(p)
        \/ analyze(p)
        \/ set_moderation_status(p)
        \/ save_comment(p)
        \/ update_statistics(p)
        \/ respond(p)
        \/ crash(p)
        \/ restart(p)

\* The scheduler keeps triggering the job and a started step completes.
SpecRerun == InitRerun /\ [][NextRerun]_vars /\ WF_vars(NextRerun)

\* A channel whose most recent video has one comment thread.
InitRace ==
    /\ settings = DefaultSettings
    /\ threads = [v \in VideoIds |-> IF v = 1 THEN {Cardinality(CommentIds)} ELSE {}]
    /\ moderationStatus = [c \in CommentIds |-> PUBLISHED]
    /\ comments_collection = [c \in CommentIds |-> NoDoc]
    /\ statistics = [d \in Dates |-> NoStats]
    /\ today = 1
    /\ pc = [p \in Procs |-> "idle"]
    /\ result = [p \in Procs |-> ProcessingResult(0, 0, 0, <<>>)]
    /\ videos = [p \in Procs |-> <<>>]
    /\ vi = [p \in Procs |-> 0]
    /\ comments = [p \in Procs |-> <<>>]
    /\ ci = [p \in Procs |-> 0]
    /\ analysis = [p \in Procs |-> NoAnalysis]
    /\ moderation_status = [p \in Procs |-> PUBLISHED]
    /\ calls = [p \in Procs |-> <<>>]
    /\ before = [p \in Procs |-> [c \in CommentIds |-> NoDoc]]
    /\ runs = 0
    /\ api = NoRequest
    /\ sessions = [sid \in SessionIds |-> None]
    /\ tokens = 0
    /\ utcnow = 0
    /\ cookie = NoCookie

\* The scheduled and the manual trigger may overlap: a batch begins whatever
\* the other invocation is doing.
NextRace ==
    \E p \in Procs :
        \/ begin(p)
        \/ get_my_videos(p)
        \/ get_comment_threads(p)
        \/ comment_exists(p)
        \/ analyze(p)
        \/ set_moderation_status(p)
        \/ save_comment(p)
        \/ update_statistics(p)
        \/ respond(p)

\* Each awaited call of a running handler eventually completes.
SpecRace == InitRace /\ [][NextRace]_vars /\ WF_vars(NextRace)

\* Overlapping batches, and the owner replying to a comment at any moment.
NextReplyRace ==
    \E p \in Procs :
        \/ begin(p)
        \/ get_my_videos(p)
        \/ get_comment_threads(p)
        \/ comment_exists(p)
        \/ analyze(p)
        \/ set_moderation_status(p)
        \/ save_comment(p)
        \/ update_statistics(p)
        \/ respond(p)
        \/ \E c \in CommentIds : reply_to_comment_body(c, Credentials)
        \/ deliver

SpecReplyRace == InitRace /\ [][NextReplyRace]_vars

\* ------------------------------------------------------- routers/auth.py

\* The user data and the session the OAuth callback builds for a login.
User(session_id) == <<"user", session_id>>
Session(session_id, expires_at) ==
    [none |-> FALSE, user |-> User(session_id), credentials |-> Credentials,
     expires_at |-> expires_at]

\* The session read that never looks at the expiry time.
get_session_unexpiring(session_id) == sessions[session_id]

\* _get_session: the stored session unless it is missing or has expired.
get_session(session_id) ==
    LET session == sessions[session_id] IN
    IF session # None /\ session.expires_at > utcnow THEN session ELSE None

\* get_user_credentials: the credentials of the request's live session.
get_user_credentials(session_id) ==
    IF session_id = NoCookie THEN None
    ELSE IF get_session(session_id) = None THEN None
    ELSE get_session(session_id).credentials

\* The browser sends its next request with this session_id cookie, or none.
set_cookie(session_id) ==
    /\ Quiet
    /\ cookie # session_id
    /\ cookie' = session_id
    /\ UNCHANGED <<sessions, tokens, utcnow, stores, settings, threads, moderationStatus,
                   today, runs, api, pc, result, videos, vi, comments, ci, analysis,
                   moderation_status, calls, before>>

\* GET /callback: the token exchange or the user-info call raises; or the
\* session is created and save_user_credentials, which FirestoreService does
\* not define, raises after it.  Either way the except clause redirects with
\* error=auth_failed and sets no cookie.
callback ==
    /\ Quiet
    /\ \/ /\ api' = Request("callback", None, 307, [error |-> "auth_failed"],
                         <<ApiCall("fetch_token", None, FALSE)>>)
          /\ UNCHANGED <<sessions, tokens>>
       \/ /\ tokens < MaxSessions
          /\ tokens' = tokens + 1
          /\ sessions' = [sessions EXCEPT ![tokens + 1] =
                            Session(tokens + 1, utcnow + SessionLifetime)]
          /\ api' = Request("callback", None, 307, [error |-> "auth_failed"],
                         <<ApiCall("fetch_token", None, TRUE),
                           ApiCall("save_user_credentials", None, FALSE)>>)
    /\ UNCHANGED <<utcnow, cookie, stores, settings, threads, moderationStatus, today, runs,
                   pc, result, videos, vi, comments, ci, analysis, moderation_status,
                   calls, before>>

\* GET /me
get_current_user ==
    /\ Quiet
    /\ api' = Request("me", cookie, 200,
                      [user |-> IF cookie = NoCookie THEN None
                                ELSE IF get_session(cookie) = None THEN None
                                ELSE get_session(cookie).user],
                      <<>>)
    /\ UNCHANGED <<auth, stores, settings, threads, moderationStatus, today, runs,
                   pc, result, videos, vi, comments, ci, analysis, moderation_status,
                   calls, before>>

\* POST /logout: the session is popped and the cookie deleted.
logout ==
    /\ Quiet
    /\ sessions' = IF cookie = NoCookie THEN sessions
                   ELSE [sessions EXCEPT ![cookie] = None]
    /\ cookie' = NoCookie
    /\ api' = Request("logout", cookie, 200, [message |-> "Logged out successfully"], <<>>)
    /\ UNCHANGED <<tokens, utcnow, stores, settings, threads, moderationStatus, today, runs,
                   pc, result, videos, vi, comments, ci, analysis, moderation_status,
                   calls, before>>

\* Time passes.
tick ==
    /\ utcnow < MaxClock
    /\ utcnow' = utcnow + 1
    /\ UNCHANGED <<sessions, tokens, cookie, stores, settings, threads, moderationStatus,
                   today, runs, api, pc, result, videos, vi, comments, ci, analysis,
                   moderation_status, calls, before>>

\* Batches one at a time over a channel with one comment thread, the session
\* routes, and replies made with the cookie of the request.
NextAuth ==
    \E p \in Procs :
        \/ begin_alone(p)
        \/ get_my_videos(p)
        \/ get_comment_threads(p)
        \/ comment_exists(p)
        \/ analyze(p)
        \/ set_moderation_status(p)
        \/ save_comment(p)
        \/ update_statistics(p)
        \/ respond(p)
        \/ \E session_id \in SessionIds \cup {NoCookie} : set_cookie(session_id)
        \/ callback
        \/ get_current_user
        \/ logout
        \/ \E c \in CommentIds : reply_to_comment(c, get_user_credentials(cookie))
        \/ deliver
        \/ tick

SpecAuth == InitRace /\ [][NextAuth]_vars

\* ------------------------------------------------------------ the call log

\* Indices of the calls of invocation p to operation op.
CallsOf(p, op) == {i \in 1..Len(calls[p]) : calls[p][i].op = op}
\* ... that carried comment c.
CallsFor(p, op, c) == {i \in CallsOf(p, op) : calls[p][i].ids = <<c>>}

\* The last call invocation p made is a call to op.
LastCallIs(p, op) == Len(calls[p]) > 0 /\ calls[p][Len(calls[p])].op = op
LastCall(p) == calls[p][Len(calls[p])]

\* Invocation p holds the verdict of its current comment and has decided it.
Decided(p) == pc[p] \in {"set_moderation_status", "save_comment"}

Docs == {c \in CommentIds : comments_collection[c].exists}

\* ------------------------------------------------------------------ claims

\* The band of the decision rule a score lies in: each band includes its
\* lower bound.
InBand(s, status) ==
    /\ s >= settings.toxicity_threshold => status = REJECTED
    /\ (settings.hold_threshold <= s /\ s < settings.toxicity_threshold)
          => status = HELD_FOR_REVIEW
    /\ s < settings.hold_threshold => status = PUBLISHED

PerCommentOps == {"analyze_comment", "set_moderation_status", "save_comment"}
\* The calls whose failure the outer try block catches before the loops end.
BatchOps == {"get_my_videos", "get_comment_threads", "comment_exists"}

\* The comments get_comment_threads handed to invocation p.
Listed(p) == UNION {Range(calls[p][i].ids) : i \in CallsOf(p, "get_comment_threads")}

\* The calls of p for comment c, in the guarded steps, that raised.
FailedCalls(p, c) ==
    {i \in 1..Len(calls[p]) :
        /\ calls[p][i].op \in PerCommentOps
        /\ calls[p][i].ids = <<c>>
        /\ ~calls[p][i].ok}
Failed(p, c) == FailedCalls(p, c) # {}

\* The entries of p's error list that name comment c.
ErrorsFor(p, c) ==
    {i \in 1..Len(result[p].errors) : result[p].errors[i] = CommentError(c)}

\* A listing or an existence check raised: the batch stopped there.
BatchFailed(p) == \E i \in 1..Len(calls[p]) : calls[p][i].op \in BatchOps /\ ~calls[p][i].ok

\* The video a thread belongs to.
VideoOf(c) == CHOOSE v \in VideoIds : c \in threads[v]

\* The record a comment gets when the model answers r and no step fails.
ExpectedDoc(c, r) ==
    LET a == analyze_comment(TextOf(c), r).value IN
    Comment(c, VideoOf(c), a, decide(a.toxicity_score, settings))

\* C2: each step of a comment that raises (classification, moderation call,
\* save) adds exactly one error naming that comment, a comment fails at most
\* once, and the batch goes on: when no listing and no existence check
\* raised, every listed comment was checked exactly once, and every listed
\* comment that did not fail itself is recorded - unchanged if it existed
\* before, else with the record its own classification determines - whatever
\* failed for the other comments.
C2_FailureIsolation ==
    \A p \in Procs :
        /\ \A c \in CommentIds :
              /\ Cardinality(ErrorsFor(p, c)) = Cardinality(FailedCalls(p, c))
              /\ Cardinality(FailedCalls(p, c)) <= 1
        /\ (pc[p] = "returned" /\ ~BatchFailed(p)) =>
              \A c \in Listed(p) :
                 /\ Cardinality(CallsFor(p, "comment_exists", c)) = 1
                 /\ (~Failed(p, c) /\ before[p][c].exists) =>
                       comments_collection[c] = before[p][c]
                 /\ (~Failed(p, c) /\ ~before[p][c].exists) =>
                       \E i \in CallsFor(p, "analyze_comment", c) :
                          /\ calls[p][i].ok
                          /\ comments_collection[c] = ExpectedDoc(c, calls[p][i].response)
                          /\ \E j \in CallsFor(p, "save_comment", c) : calls[p][j].ok

\* C2's case: a batch has returned in which one comment failed and a comment
\* checked after that failure was saved.
C2_Witness ==
    \E p \in Procs :
        /\ pc[p] = "returned"
        /\ ~BatchFailed(p)
        /\ \E c1, c2 \in Listed(p) :
              /\ c1 # c2
              /\ \E i \in FailedCalls(p, c1), j \in CallsFor(p, "comment_exists", c2),
                    k \in CallsFor(p, "save_comment", c2) :
                    i < j /\ calls[p][k].ok
              /\ Cardinality(ErrorsFor(p, c1)) = 1

\* C3 (as claimed): an invocation never raises to its caller, and when it
\* returns, every call that raised is present in the errors of its result.
C3_NeverRaises ==
    \A p \in Procs :
        /\ pc[p] # "raised"
        /\ pc[p] = "returned" =>
              Len(result[p].errors)
                 = Cardinality({i \in 1..Len(calls[p]) : ~calls[p][i].ok})

\* The comments invocation p saved, and those it classified.
SavedBy(p) == {c \in CommentIds : \E i \in CallsFor(p, "save_comment", c) : calls[p][i].ok}
ClassifiedBy(p) == {c \in CommentIds : CallsFor(p, "analyze_comment", c) # {}}

\* C4: a comment that was recorded when a batch began keeps its record
\* unchanged through the batch, which makes no classification call, no
\* set_moderation_status call and no save for it and counts only the comments
\* it saved itself, none of which was recorded before.
C4_Idempotent ==
    \A p \in Procs :
        pc[p] \notin {"idle", "raised"} =>
            /\ \A c \in CommentIds :
                  before[p][c].exists =>
                     /\ comments_collection[c] = before[p][c]
                     /\ \A i \in 1..Len(calls[p]) :
                           calls[p][i].op \in PerCommentOps => calls[p][i].ids # <<c>>
            /\ result[p].processed_count = Cardinality(SavedBy(p))
            /\ result[p].hidden_count + result[p].held_count
                  <= Cardinality(ClassifiedBy(p))
            /\ \A c \in SavedBy(p) \cup ClassifiedBy(p) : ~before[p][c].exists

\* C4's case: a second batch has fetched and checked a comment an earlier
\* batch recorded, and has returned.
C4_Witness ==
    \E p \in Procs :
        /\ runs = 2
        /\ pc[p] = "returned"
        /\ \E c \in Listed(p) :
              /\ before[p][c].exists
              /\ \E i \in CallsFor(p, "comment_exists", c) : calls[p][i].ok
        /\ result[p].processed_count = 0

\* A response that is not well-formed structured output: text that is no
\* JSON, JSON that is no object, or an object whose toxicity_score is present
\* and is not a number.
Numeric(x) == x.k \in {"int", "float"}
Malformed(r) ==
    \/ r.shape \in {"text", "array"}
    \/ /\ r.shape = "object"
       /\ "toxicity_score" \in r.has
       /\ ~Numeric(r.toxicity_score)

\* C5 (as claimed): for every malformed response analyze_comment returns,
\* without raising, the default verdict: category complaint, score 50,
\* mild_text the original text.
C5_MalformedDefaults ==
    \A p \in Procs :
        (LastCallIs(p, "analyze_comment") /\ Malformed(LastCall(p).response)) =>
            /\ LastCall(p).ok
            /\ analysis[p].toxicity_score = 50
            /\ analysis[p].category = COMPLAINT
            /\ analysis[p].mild_text = Text(TextOf(LastCall(p).ids[1]))

\* C6 (as claimed): in a batch in which no call raised, a new comment whose
\* response could not be parsed as JSON ends recorded as held for review or
\* rejected, after a set_moderation_status call for it, under every setting
\* of the thresholds.
C6_NeverFailsOpen ==
    \A p \in Procs :
        (pc[p] = "returned" /\ \A i \in 1..Len(calls[p]) : calls[p][i].ok) =>
            \A i \in CallsOf(p, "analyze_comment") :
                calls[p][i].response.shape = "text" =>
                    LET c == calls[p][i].ids[1] IN
                    /\ comments_collection[c].exists
                    /\ comments_collection[c].moderation_status
                          \in {HELD_FOR_REVIEW, REJECTED}
                    /\ \E j \in CallsFor(p, "set_moderation_status", c) : j > i

\* The response the model gave for the comment invocation p has decided.
ResponseOf(p) ==
    calls[p][CHOOSE i \in CallsFor(p, "analyze_comment", comment_id(p)) : TRUE].response

\* A number's value in tenths.
Tenths(x) == IF x.k = "int" THEN 10 * x.v ELSE x.v

HasNumericScore(r) ==
    r.shape = "object" /\ "toxicity_score" \in r.has /\ Numeric(r.toxicity_score)

\* C7 (as claimed): every verdict and every record has a score in 0..100; a
\* numeric score below 0 becomes 0, one above 100 becomes 100, and one in
\* range is kept unchanged.
C7_ClampKeepsInRange ==
    /\ \A c \in Docs : comments_collection[c].toxicity_score \in 0..100
    /\ \A p \in Procs :
          Decided(p) =>
             /\ analysis[p].toxicity_score \in 0..100
             /\ HasNumericScore(ResponseOf(p)) =>
                   LET t == Tenths(ResponseOf(p).toxicity_score) IN
                   /\ t < 0 => analysis[p].toxicity_score = 0
                   /\ t > 1000 => analysis[p].toxicity_score = 100
                   /\ (0 <= t /\ t <= 1000) => 10 * analysis[p].toxicity_score = t

\* C7 (amended): every verdict and every record has a score in 0..100; a
\* numeric score below 0 becomes 0, one above 100 becomes 100, an integer in
\* range is kept unchanged and a fraction in range is truncated to the
\* integer below it.
C7_Clamp ==
    /\ \A c \in Docs : comments_collection[c].toxicity_score \in 0..100
    /\ \A p \in Procs :
          Decided(p) =>
             /\ analysis[p].toxicity_score \in 0..100
             /\ HasNumericScore(ResponseOf(p)) =>
                   LET x == ResponseOf(p).toxicity_score
                       t == Tenths(x) IN
                   /\ t < 0 => analysis[p].toxicity_score = 0
                   /\ t > 1000 => analysis[p].toxicity_score = 100
                   /\ (0 <= t /\ t <= 1000 /\ x.k = "int") =>
                         analysis[p].toxicity_score = x.v
                   /\ (0 <= t /\ t <= 1000 /\ x.k = "float") =>
                         /\ 10 * analysis[p].toxicity_score <= t
                         /\ t < 10 * analysis[p].toxicity_score + 10

\* C7's case: the model scored a comment above 100 and its record has been
\* saved with the score 100.
C7_Witness ==
    \E p \in Procs : \E c \in SavedBy(p) :
        /\ comments_collection[c].toxicity_score = 100
        /\ \E i \in CallsFor(p, "analyze_comment", c) :
              /\ HasNumericScore(calls[p][i].response)
              /\ Tenths(calls[p][i].response.toxicity_score) > 1000

\* C8: a save of a record with status rejected or held for review comes
\* after a set_moderation_status call of the same batch, for the same single
\* comment and the same status, that returned; after a moderation call that
\* raised the batch makes no save for that comment.
C8_ModerationPrecedesSave ==
    \A p \in Procs :
        /\ \A i \in CallsOf(p, "save_comment") :
              calls[p][i].status \in {REJECTED, HELD_FOR_REVIEW} =>
                 \E j \in CallsOf(p, "set_moderation_status") :
                    /\ j < i
                    /\ calls[p][j].ok
                    /\ calls[p][j].ids = calls[p][i].ids
                    /\ calls[p][j].status = calls[p][i].status
        /\ \A c \in SavedBy(p) :
              comments_collection[c].moderation_status \in {REJECTED, HELD_FOR_REVIEW} =>
                 \E j \in CallsFor(p, "set_moderation_status", c) :
                    /\ calls[p][j].ok
                    /\ calls[p][j].status = comments_collection[c].moderation_status
        /\ \A j \in CallsOf(p, "set_moderation_status") :
              ~calls[p][j].ok =>
                 /\ CallsFor(p, "save_comment", calls[p][j].ids[1]) = {}
                 /\ comments_collection[calls[p][j].ids[1]] = before[p][calls[p][j].ids[1]]

\* C8's case: in one batch the moderation call of one comment raised and a
\* rejected record of another comment was saved after its moderation call.
C8_Witness ==
    \E p \in Procs :
        /\ \E j \in CallsOf(p, "set_moderation_status") : ~calls[p][j].ok
        /\ \E i \in CallsOf(p, "save_comment") :
              calls[p][i].ok /\ calls[p][i].status = REJECTED

\* C9: a batch calls set_moderation_status only with a single comment id and
\* a status other than published, only for a comment that has no record (none
\* when the batch began, none when the call is made), at most once per
\* comment, and not at all for a comment whose decided status is published.
C9_ModerationCalls ==
    \A p \in Procs :
        /\ \A i \in CallsOf(p, "set_moderation_status") :
              /\ Len(calls[p][i].ids) = 1
              /\ calls[p][i].status \in {REJECTED, HELD_FOR_REVIEW}
              /\ ~before[p][calls[p][i].ids[1]].exists
              /\ i = Len(calls[p]) => ~comments_collection[calls[p][i].ids[1]].exists
        /\ \A c \in CommentIds : Cardinality(CallsFor(p, "set_moderation_status", c)) <= 1
        /\ (pc[p] = "save_comment" /\ moderation_status[p] = PUBLISHED) =>
              CallsFor(p, "set_moderation_status", comment_id(p)) = {}
        /\ \A i \in CallsOf(p, "save_comment") :
              calls[p][i].status = PUBLISHED =>
                 CallsFor(p, "set_moderation_status", calls[p][i].ids[1]) = {}

\* C9's case: a batch saved one comment as published and called
\* set_moderation_status for another.
C9_Witness ==
    \E p \in Procs :
        /\ \E i \in CallsOf(p, "save_comment") :
              calls[p][i].ok /\ calls[p][i].status = PUBLISHED
        /\ \E j \in CallsOf(p, "set_moderation_status") : calls[p][j].ok

\* The scenario of C10: one fetched video listing two new comments A then B,
\* A classified 20/positive and B 85/toxic, and no call raised.
Scenario(p, A, B) ==
    /\ A # B
    /\ Len(videos[p]) = 1
    /\ \A i \in 1..Len(calls[p]) : calls[p][i].ok
    /\ \A i \in CallsOf(p, "get_comment_threads") : calls[p][i].ids = <<A, B>>
    /\ ~before[p][A].exists /\ ~before[p][B].exists
    /\ \A i \in CallsFor(p, "analyze_comment", A) :
          /\ HasNumericScore(calls[p][i].response)
          /\ calls[p][i].response.toxicity_score = JInt(20)
          /\ calls[p][i].response.category = POSITIVE
    /\ \A i \in CallsFor(p, "analyze_comment", B) :
          /\ HasNumericScore(calls[p][i].response)
          /\ calls[p][i].response.toxicity_score = JInt(85)
          /\ calls[p][i].response.category = TOXIC

\* C10: under the default thresholds a batch over that scenario returns
\* processed_count 2, hidden_count 1, held_count 0 and no errors, leaves
\* exactly the two records (A published, B rejected) and has made exactly one
\* set_moderation_status call, for B with status rejected.
C10_EndToEnd ==
    \A p \in Procs : \A A, B \in CommentIds :
        (pc[p] = "returned" /\ settings = DefaultSettings /\ Scenario(p, A, B)) =>
            /\ result[p] = ProcessingResult(2, 1, 0, <<>>)
            /\ SavedBy(p) = {A, B}
            /\ Docs = {A, B}
            /\ comments_collection[A].moderation_status = PUBLISHED
            /\ comments_collection[A].toxicity_score = 20
            /\ comments_collection[A].category = POSITIVE
            /\ comments_collection[B].moderation_status = REJECTED
            /\ comments_collection[B].toxicity_score = 85
            /\ comments_collection[B].category = TOXIC
            /\ Cardinality(CallsOf(p, "set_moderation_status")) = 1
            /\ \A i \in CallsOf(p, "set_moderation_status") :
                  calls[p][i].ids = <<B>> /\ calls[p][i].status = REJECTED

\* C10's case: such a batch has returned.
C10_Witness ==
    \E p \in Procs : \E A, B \in CommentIds :
        /\ pc[p] = "returned"
        /\ settings = DefaultSettings
        /\ Scenario(p, A, B)
        /\ CallsOf(p, "get_comment_threads") # {}
        /\ CallsOf(p, "update_statistics") # {}

\* Invocation p is about to make its aggregate call.
AtAggregate(p) == pc[p] = "for_video" /\ vi[p] > Len(videos[p])

\* C11: the Daily Aggregates change only in a step in which a batch that has
\* finished all its videos returns from its aggregate call, and that step adds
\* hidden_count + held_count to blocked_count and processed_count to
\* total_processed of the current date's aggregate and changes nothing else;
\* a batch makes the call at most once, as the last of its calls.
C11_AggregateOnce ==
    /\ [][statistics' # statistics =>
            \E p \in Procs :
               /\ AtAggregate(p)
               /\ pc'[p] = "returned"
               /\ result'[p] = result[p]
               /\ statistics' = [statistics EXCEPT ![today] =
                     [positive_count |-> @.positive_count,
                      question_count |-> @.question_count,
                      constructive_count |-> @.constructive_count,
                      blocked_count |-> @.blocked_count + result[p].hidden_count
                                                         + result[p].held_count,
                      total_processed |-> @.total_processed + result[p].processed_count]]
               /\ result[p].hidden_count + result[p].held_count
                     = Cardinality(CallsOf(p, "set_moderation_status"))
               /\ result[p].processed_count = Cardinality(SavedBy(p))]_vars
    /\ [](\A p \in Procs :
            /\ Cardinality(CallsOf(p, "update_statistics")) <= 1
            /\ \A i \in CallsOf(p, "update_statistics") :
                  i = Len(calls[p]) /\ pc[p] = "returned")

\* C11's case: a batch of the second day that saved one comment and blocked
\* it has returned from its aggregate call, after a batch of the first day
\* that saved one comment without blocking it.
C11_Witness ==
    \E p \in Procs :
        /\ pc[p] = "returned"
        /\ today = 2
        /\ LastCallIs(p, "update_statistics") /\ LastCall(p).ok
        /\ result[p].processed_count = 1
        /\ result[p].hidden_count + result[p].held_count = 1
        /\ statistics[2] = [NoStats EXCEPT !.total_processed = 1, !.blocked_count = 1]
        /\ statistics[1] = [NoStats EXCEPT !.total_processed = 1]

\* C12: the step in which a batch's aggregate call ends leaves the processed,
\* hidden and held counts and every comment record as they were; when the
\* call raised, the step appends one batch-level error to the errors and
\* leaves the aggregates unchanged, and when it returned it adds no error.
C12_AggregateFailure ==
    [][\A p \in Procs :
          (AtAggregate(p) /\ pc'[p] = "returned") =>
             /\ result'[p].processed_count = result[p].processed_count
             /\ result'[p].hidden_count = result[p].hidden_count
             /\ result'[p].held_count = result[p].held_count
             /\ comments_collection' = comments_collection
             /\ IF calls'[p][Len(calls'[p])].ok
                THEN result'[p].errors = result[p].errors
                ELSE /\ result'[p].errors = Append(result[p].errors, JobError)
                     /\ statistics' = statistics]_vars

\* C12's case: a batch that saved a blocked comment has returned after its
\* aggregate call raised.
C12_Witness ==
    \E p \in Procs :
        /\ pc[p] = "returned"
        /\ LastCallIs(p, "update_statistics") /\ ~LastCall(p).ok
        /\ result[p] = ProcessingResult(1, 1, 0, <<JobError>>)
        /\ \E c \in SavedBy(p) : comments_collection[c].moderation_status = REJECTED
        /\ statistics[today] = NoStats

\* The listing calls of a batch.
ListingOps == {"get_my_videos", "get_comment_threads"}

\* Invocation p's step ends with a listing call that raised.
ListingRaised(p) ==
    /\ Len(calls'[p]) = Len(calls[p]) + 1
    /\ calls'[p][Len(calls'[p])].op \in ListingOps
    /\ ~calls'[p][Len(calls'[p])].ok

\* C13: the step in which a listing call raises returns the result with the
\* counts and errors accumulated so far plus one batch-level error and leaves
\* the records and the aggregates unchanged; a batch that has returned makes
\* no further call, so after a listing failure there is no classification,
\* moderation, save or aggregate call.
C13_ListingFailureStops ==
    /\ [][\A p \in Procs :
            /\ ListingRaised(p) =>
                  /\ pc'[p] = "returned"
                  /\ result'[p] = [result[p] EXCEPT !.errors = Append(@, JobError)]
                  /\ comments_collection' = comments_collection
                  /\ statistics' = statistics
            /\ pc[p] = "returned" =>
                  /\ calls'[p] \in {calls[p], <<>>}
                  /\ pc'[p] \in {"returned", "idle"}
                  /\ comments_collection' = comments_collection
                  /\ statistics' = statistics]_vars
    /\ [](\A p \in Procs : \A i \in 1..Len(calls[p]) :
            (calls[p][i].op \in ListingOps /\ ~calls[p][i].ok) =>
               /\ i = Len(calls[p])
               /\ pc[p] = "returned"
               /\ Cardinality({j \in 1..Len(result[p].errors) :
                                  result[p].errors[j] = JobError}) = 1
               /\ \A c \in SavedBy(p) : comments_collection[c].exists)

\* C13's case: a batch recorded an error for one comment, saved another and
\* returned when the listing of the next video's threads raised.
C13_Witness ==
    \E p \in Procs : \E c \in CommentIds :
        /\ pc[p] = "returned"
        /\ LastCallIs(p, "get_comment_threads") /\ ~LastCall(p).ok
        /\ result[p].errors = <<CommentError(c), JobError>>
        /\ result[p].processed_count = 1
        /\ SavedBy(p) # {}

\* The reads of the "comments" collection among the calls of the request.
StoreReads ==
    {i \in 1..Len(api.calls) :
        api.calls[i].op \in {"get_comments_by_category", "get_comment"}}

\* C14: a category read for toxic is answered 400 without any call to the
\* store, whatever the store holds; a category read for another category is
\* never answered 400: it is answered 200 with the query's result, or 500
\* when the query raised.
C14_ToxicReadRejected ==
    api.op = "category" =>
       IF api.arg = TOXIC
       THEN api.status = 400 /\ api.calls = <<>> /\ api.body = None
       ELSE /\ api.status \in {200, 500}
            /\ StoreReads # {}
            /\ api.status = 200 => api.body = get_comments_by_category(api.arg)

\* C14's case: the toxic category has been read while the store holds a
\* record of that category.
C14_Witness ==
    /\ api.op = "category" /\ api.arg = TOXIC /\ api.status = 400
    /\ \E c \in Docs : comments_collection[c].category = TOXIC

\* The comment summaries the answered request returned.
ReturnedSummaries ==
    IF api.status # 200 THEN {}
    ELSE IF api.op = "summary"
    THEN api.body.comments.positive \cup api.body.comments.questions
            \cup api.body.comments.constructive
    ELSE IF api.op = "category" THEN api.body
    ELSE {}

\* The counters the answered request returned, as a set (empty when none).
ReturnedStats ==
    IF api.status # 200 THEN {}
    ELSE IF api.op = "summary" THEN {api.body.stats}
    ELSE IF api.op = "stats" THEN {api.body}
    ELSE {}

\* Record c is blocked from view: toxic, or scored at or above the threshold.
Blocked(c) ==
    /\ comments_collection[c].exists
    /\ \/ comments_collection[c].category = TOXIC
       \/ comments_collection[c].toxicity_score >= settings.toxicity_threshold

\* The fields of a summary and of the counters.
SummaryFields == {"id", "video_id", "mild_text", "category", "needs_reply"}
StatsFields == {"positive_count", "question_count", "constructive_count",
                "blocked_count", "total_processed"}

\* No summary is of a blocked record or carries a text of one, no summary has
\* an original_text field, and the counters are the five numbers.
NoBlockedContent ==
    /\ \A s \in ReturnedSummaries :
          /\ DOMAIN s = SummaryFields
          /\ comments_collection[s.id].exists
          /\ ~Blocked(s.id)
          /\ \A c \in CommentIds :
                Blocked(c) => s.mild_text \notin {comments_collection[c].original_text,
                                                  comments_collection[c].mild_text}
    /\ \A st \in ReturnedStats : DOMAIN st = StatsFields /\ st = statistics[today]

ModelCalls == {i \in 1..Len(api.calls) : api.calls[i].op = "generate_content"}

\* C16: generate_reply_suggestion gives None and calls the model not at all
\* for the category toxic, whatever the text; a suggest-reply request for a
\* recorded comment of category toxic makes no model call and, when it is
\* answered 200, carries the suggestion None (it is otherwise answered 500).
C16_NoSuggestionForToxic ==
    /\ \A c \in CommentIds : \A model_ok \in BOOLEAN : \A t \in {TextOf(c), MildOf(c)} :
          generate_reply_suggestion(t, TOXIC, model_ok)
             = [suggestion |-> None, calls |-> <<>>]
    /\ (/\ api.op = "suggest"
        /\ comments_collection[api.arg].exists
        /\ comments_collection[api.arg].category = TOXIC) =>
          /\ ModelCalls = {}
          /\ api.status \in {200, 500}
          /\ api.status = 200 =>
                api.body = [comment_id |-> api.arg, suggestion |-> None]

\* C16's case: a suggest-reply request for a recorded toxic comment has been
\* answered 200.
C16_Witness ==
    /\ api.op = "suggest" /\ api.status = 200
    /\ comments_collection[api.arg].exists
    /\ comments_collection[api.arg].category = TOXIC
    /\ api.body.suggestion = None

\* The calls of the request to operation op.
ApiCallsOf(op) == {i \in 1..Len(api.calls) : api.calls[i].op = op}

\* C17: a reply request for a comment id without a record is answered 404 as
\* soon as the lookup has returned (500 only when the lookup itself raised),
\* makes no call other than the lookup, so neither posts a reply nor marks a
\* record replied, and the step that answers it leaves both collections
\* unchanged.
C17_ReplyToUnknown ==
    /\ [](( api.op = "reply" /\ ~comments_collection[api.arg].exists) =>
            /\ ApiCallsOf("reply_to_comment") = {}
            /\ ApiCallsOf("mark_as_replied") = {}
            /\ Len(api.calls) = 1
            /\ api.calls[1].op = "get_comment"
            /\ api.status = IF api.calls[1].ok THEN 404 ELSE 500)
    /\ [][(api'.op = "reply" /\ api' # api /\ ~comments_collection[api'.arg].exists) =>
             (comments_collection' = comments_collection /\ statistics' = statistics)]_vars

\* C17's case: a reply request for an id without a record has been answered
\* 404 while the store holds a record of another comment.
C17_Witness ==
    /\ api.op = "reply" /\ api.status = 404
    /\ ~comments_collection[api.arg].exists
    /\ Docs # {}

\* The request posted its reply: a reply_to_comment call of it returned.
Posted == \E i \in ApiCallsOf("reply_to_comment") : api.calls[i].ok

\* Document doc carries the mark of a reply.
Replied(doc) == doc.exists /\ "replied_at" \in DOMAIN doc /\ ~doc.needs_reply

\* In a reply request a mark_as_replied call comes only after a call that
\* posted the reply for the same id and returned; a request answered 401
\* made neither call.
MarkFollowsPost ==
    api.op = "reply" =>
       /\ \A i \in ApiCallsOf("mark_as_replied") :
             \E j \in ApiCallsOf("reply_to_comment") :
                j < i /\ api.calls[j].ok /\ api.calls[j].arg = api.calls[i].arg
                      /\ api.calls[i].arg = api.arg
       /\ api.status = 401 =>
             ApiCallsOf("reply_to_comment") = {} /\ ApiCallsOf("mark_as_replied") = {}
       /\ (\E j \in ApiCallsOf("reply_to_comment") : ~api.calls[j].ok) =>
             api.status = 500 /\ ApiCallsOf("mark_as_replied") = {}

\* The step answering a reply request changes the store only when it answers
\* 200, and then only by marking the record of the request's id.
MarkOnlyOnSuccess ==
    (api'.op = "reply" /\ api' # api) =>
       /\ statistics' = statistics
       /\ IF api'.status = 200
          THEN /\ comments_collection[api'.arg].exists
               /\ \A c \in CommentIds \ {api'.arg} :
                     comments_collection'[c] = comments_collection[c]
               /\ Replied(comments_collection'[api'.arg])
               /\ \A f \in DOMAIN comments_collection[api'.arg] \ {"needs_reply", "replied_at"} :
                     comments_collection'[api'.arg][f] = comments_collection[api'.arg][f]
          ELSE comments_collection' = comments_collection

\* C18 (as claimed): mark_replied follows a successful post_reply of the same
\* request; whenever the record exists, the caller is authenticated and the
\* post succeeds, the answer is the success carrying the reply id and the
\* record is marked replied; on 401 or a raised post nothing is marked.
C18_PostThenMark ==
    /\ MarkFollowsPost
    /\ (api.op = "reply" /\ Posted) =>
          /\ api.status = 200
          /\ api.body = [success |-> TRUE, reply_id |-> ReplyId(api.arg)]
          /\ Replied(comments_collection[api.arg])

\* C18 (amended): as claimed, but the success answer and the mark also need
\* mark_replied itself to return: when it raises after the reply was posted
\* the answer is 500 and the record is left as it was.
C18_PostThenMarkIfMarked ==
    /\ [](MarkFollowsPost)
    /\ []((api.op = "reply" /\ Posted) =>
             /\ ApiCallsOf("mark_as_replied") # {}
             /\ IF \A i \in ApiCallsOf("mark_as_replied") : api.calls[i].ok
                THEN /\ api.status = 200
                     /\ api.body = [success |-> TRUE, reply_id |-> ReplyId(api.arg)]
                     /\ Replied(comments_collection[api.arg])
                ELSE api.status = 500)
    /\ [][MarkOnlyOnSuccess]_vars

\* C18's case: a reply to a recorded question or constructive comment has
\* been posted and answered with success.
C18_Witness ==
    /\ api.op = "reply" /\ api.status = 200 /\ Posted
    /\ comments_collection[api.arg].category \in {QUESTION, CONSTRUCTIVE}
    /\ Replied(comments_collection[api.arg])

\* C19: a record without the mark of a reply has needs_reply true exactly
\* when its category is question or constructive (so has every record as the
\* pipeline saves it), and a record marked replied has needs_reply false.
C19_NeedsReply ==
    /\ \A c \in Docs :
          IF "replied_at" \in DOMAIN comments_collection[c]
          THEN comments_collection[c].needs_reply = FALSE
          ELSE comments_collection[c].needs_reply
                  = (comments_collection[c].category \in {QUESTION, CONSTRUCTIVE})
    /\ \A p \in Procs : \A c \in SavedBy(p) :
          /\ "replied_at" \notin DOMAIN comments_collection[c]
          /\ comments_collection[c].needs_reply
                = (comments_collection[c].category \in {QUESTION, CONSTRUCTIVE})

\* C19's case: the store holds a constructive comment marked replied and a
\* question that still needs its reply, while a batch has saved a comment.
C19_Witness ==
    /\ \E c, d \in Docs :
          /\ Replied(comments_collection[c])
          /\ comments_collection[c].category = CONSTRUCTIVE
          /\ comments_collection[d].category = QUESTION
          /\ comments_collection[d].needs_reply
    /\ \E p \in Procs : SavedBy(p) # {}

\* Invocation p's step is an existence check that returned for a comment
\* that has a record.
SkipStep(p) ==
    /\ pc[p] = "for_comment"
    /\ comments_collection[comment_id(p)].exists
    /\ Len(calls'[p]) = Len(calls[p]) + 1
    /\ calls'[p][Len(calls'[p])] =
          Call("comment_exists", <<comment_id(p)>>, "", TRUE, NoResponse)

\* C20: every classification call of a batch comes after an existence check
\* of the same batch for the same comment; the step that finds the comment
\* recorded changes neither the result (counts and errors) nor the store and
\* moves on to the next comment or video, and the batch never makes a
\* classification, moderation or save call for that comment.
C20_SilentSkip ==
    /\ [](\A p \in Procs : \A i \in CallsOf(p, "analyze_comment") :
             \E j \in CallsOf(p, "comment_exists") :
                j < i /\ calls[p][j].ok /\ calls[p][j].ids = calls[p][i].ids)
    /\ [][\A p \in Procs :
             SkipStep(p) =>
                /\ result'[p] = result[p]
                /\ comments_collection' = comments_collection
                /\ statistics' = statistics
                /\ pc'[p] \in {"for_comment", "for_video"}
                /\ <<vi'[p], ci'[p]>> # <<vi[p], ci[p]>>
                /\ \A op \in {"analyze_comment", "set_moderation_status", "save_comment"} :
                      CallsFor(p, op, comment_id(p)) = {}]_vars
    /\ [](\A p \in Procs : \A c \in CommentIds :
             (before[p][c].exists /\ CallsFor(p, "comment_exists", c) # {}) =>
                /\ \A op \in {"analyze_comment", "set_moderation_status", "save_comment"} :
                      CallsFor(p, op, c) = {}
                /\ \A k \in 1..Len(result[p].errors) : result[p].errors[k] # CommentError(c))

\* C20's case: a batch that listed a recorded comment and a new one has
\* returned with one comment processed and no error.
C20_Witness ==
    \E p \in Procs : \E c, d \in Listed(p) :
        /\ pc[p] = "returned"
        /\ before[p][c].exists /\ CallsFor(p, "comment_exists", c) # {}
        /\ ~before[p][d].exists /\ d \in SavedBy(p)
        /\ result[p].processed_count = 1
        /\ result[p].errors = <<>>

\* The attributes of a record that mark_as_replied may change.
ReplyFields == {"needs_reply", "replied_at"}

\* C21: in every step a recorded comment stays recorded with every attribute
\* other than needs_reply and replied_at as it was; its record changes only in
\* the step that answers a reply request for it with success; a record
\* comes into being only by the save of a batch that found none, and no batch
\* saves a comment twice or saves one that was recorded when it began.
C21_RecordLifecycle ==
    /\ [][\A c \in CommentIds :
            /\ comments_collection[c].exists =>
                  /\ comments_collection'[c].exists
                  /\ DOMAIN comments_collection[c] \subseteq DOMAIN comments_collection'[c]
                  /\ \A f \in DOMAIN comments_collection[c] \ ReplyFields :
                        comments_collection'[c][f] = comments_collection[c][f]
                  /\ comments_collection'[c] # comments_collection[c] =>
                        /\ api'.op = "reply" /\ api'.arg = c /\ api'.status = 200
                        /\ api = NoRequest
            /\ (~comments_collection[c].exists /\ comments_collection'[c].exists) =>
                  \E p \in Procs :
                     /\ pc[p] = "save_comment" /\ comment_id(p) = c
                     /\ "replied_at" \notin DOMAIN comments_collection'[c]]_vars
    /\ [](\A p \in Procs : \A c \in CommentIds :
            /\ Cardinality({i \in CallsFor(p, "save_comment", c) : calls[p][i].ok}) <= 1
            /\ before[p][c].exists => CallsFor(p, "save_comment", c) = {})

\* C21's case: a batch has listed a comment that an earlier batch recorded
\* and a reply marked, and has returned.
C21_Witness ==
    \E p \in Procs : \E c \in Listed(p) :
        /\ pc[p] = "returned"
        /\ Replied(before[p][c])
        /\ CallsFor(p, "comment_exists", c) # {}
        /\ comments_collection[c] = before[p][c]

\* Comment c is recorded by invocation p / is errored in invocation p.
Recorded(p, c) == c \in SavedBy(p) /\ comments_collection[c].exists
Errored(p, c) == ErrorsFor(p, c) # {}

\* A comment is never both recorded and errored by a batch; an errored one
\* has no record and no returned save of the batch, and has one error entry;
\* the classifier is called at most once per comment; processed_count counts
\* the recorded comments only.
AtMostOneTerminal(p) ==
    /\ \A c \in CommentIds :
          /\ ~(Recorded(p, c) /\ Errored(p, c))
          /\ Cardinality(CallsFor(p, "analyze_comment", c)) <= 1
          /\ Errored(p, c) =>
                /\ Cardinality(ErrorsFor(p, c)) = 1
                /\ c \notin SavedBy(p)
                /\ ~before[p][c].exists
                /\ ~comments_collection[c].exists
    /\ result[p].processed_count = Cardinality({c \in CommentIds : Recorded(p, c)})

\* C25 (as claimed): within a batch a comment is never both recorded and
\* errored, an errored one is neither saved, nor retried, nor counted, and
\* when the batch has returned every fetched comment that was not recorded
\* before is recorded or errored.
C25_OneTerminalState ==
    \A p \in Procs :
        /\ AtMostOneTerminal(p)
        /\ pc[p] = "returned" =>
              \A c \in Listed(p) :
                 ~before[p][c].exists => (Recorded(p, c) \/ Errored(p, c))

\* C25 (amended): as claimed, but every fetched comment is sure to reach a
\* terminal state only when no listing and no existence check raised in the
\* batch; a batch-level failure leaves the comments after it unrecorded and
\* without an error of their own.
C25_OneTerminalStateUnlessAborted ==
    \A p \in Procs :
        /\ AtMostOneTerminal(p)
        /\ (pc[p] = "returned" /\ ~BatchFailed(p)) =>
              \A c \in Listed(p) :
                 ~before[p][c].exists => (Recorded(p, c) \/ Errored(p, c))
        /\ (pc[p] = "returned" /\ BatchFailed(p)) =>
              \A c \in Listed(p) :
                 (CallsFor(p, "analyze_comment", c) = {}) =>
                    (~Recorded(p, c) /\ ~Errored(p, c))

\* C25's case: a batch without a batch-level failure has returned with one
\* comment recorded and the other errored.
C25_Witness ==
    \E p \in Procs : \E c, d \in Listed(p) :
        /\ pc[p] = "returned" /\ ~BatchFailed(p)
        /\ Recorded(p, c) /\ Errored(p, d)
        /\ result[p].processed_count = 1

\* The response the model gave when invocation p classified comment c.
ResponseFor(p, c) ==
    calls[p][CHOOSE i \in CallsFor(p, "analyze_comment", c) : TRUE].response

\* The response carries a mild text: the key is there with a non-empty string.
CarriesMildText(r) ==
    r.shape = "object" /\ "mild_text" \in r.has
       /\ r.mild_text.k = "str" /\ r.mild_text.v # <<>>

\* C26: every record a batch saved has as original_text the fetched text of
\* the comment, and as mild_text the mild text of the classifier's answer
\* when that carries one and the original text when it carries none (the key
\* missing, null, the empty string, or an answer that could not be parsed);
\* the verdict of a decided comment carries the answer's mild text.
C26_MildText ==
    \A p \in Procs :
        /\ \A c \in SavedBy(p) :
              /\ comments_collection[c].original_text = TextOf(c)
              /\ comments_collection[c].mild_text =
                    IF CarriesMildText(ResponseFor(p, c))
                    THEN ResponseFor(p, c).mild_text.v
                    ELSE TextOf(c)
        /\ (Decided(p) /\ CarriesMildText(ResponseOf(p))) =>
              analysis[p].mild_text = ResponseOf(p).mild_text

\* C26's case: a batch saved one comment whose answer had a null mild text
\* and one whose answer carried a mild text.
C26_Witness ==
    \E p \in Procs : \E c, d \in SavedBy(p) :
        /\ ResponseFor(p, c).shape = "object"
        /\ ResponseFor(p, c).mild_text = NoText
        /\ comments_collection[c].mild_text = TextOf(c)
        /\ CarriesMildText(ResponseFor(p, d))
        /\ comments_collection[d].mild_text = MildOf(d)

\* The response is a JSON object whose score int() accepts.
WellFormed(r) ==
    r.shape = "object" /\ ~int_raises(Get(r, "toxicity_score", JInt(0)))

\* C27: the category of every verdict is one of the five; for a well-formed
\* answer analyze_comment returns, and its verdict has the answer's category
\* when that is one of the five names and complaint when the name is another
\* one or the key is missing.
C27_ClosedCategories ==
    \A p \in Procs :
        /\ Decided(p) =>
              /\ analysis[p].category \in {POSITIVE, QUESTION, CONSTRUCTIVE, COMPLAINT, TOXIC}
              /\ WellFormed(ResponseOf(p)) =>
                    analysis[p].category =
                       IF /\ "category" \in ResponseOf(p).has
                          /\ ResponseOf(p).category
                                \in {"positive", "question", "constructive", "complaint", "toxic"}
                       THEN ResponseOf(p).category
                       ELSE "complaint"
        /\ \A i \in CallsOf(p, "analyze_comment") :
              WellFormed(calls[p][i].response) => calls[p][i].ok
        /\ \A c \in SavedBy(p) :
              comments_collection[c].category
                 \in {POSITIVE, QUESTION, CONSTRUCTIVE, COMPLAINT, TOXIC}

\* C27's case: a comment whose answer named a category outside the five has
\* been decided as a complaint.
C27_Witness ==
    \E p \in Procs :
        /\ Decided(p)
        /\ WellFormed(ResponseOf(p))
        /\ ResponseOf(p).category = "spam"
        /\ analysis[p].category = COMPLAINT

\* The comments invocation p saved with the given status.
SavedWith(p, status) ==
    {c \in SavedBy(p) : comments_collection[c].moderation_status = status}

\* The comments invocation p decided to have the given status: those it made
\* a moderation call for, and the one it is about to make the call for.
DecidedWith(p, status) ==
    {calls[p][i].ids[1] : i \in {j \in CallsOf(p, "set_moderation_status") :
                                     calls[p][j].status = status}}
       \cup (IF pc[p] = "set_moderation_status" /\ moderation_status[p] = status
             THEN {comment_id(p)} ELSE {})

\* A moderation call or a save of invocation p raised.
ModerationOrSaveFailed(p) ==
    \E i \in 1..Len(calls[p]) :
        calls[p][i].op \in {"set_moderation_status", "save_comment"} /\ ~calls[p][i].ok

\* C28 (as claimed): in every state of a batch hidden_count is the number of
\* records the batch saved as rejected, held_count the number it saved as
\* held for review, and their sum is at most processed_count.
C28_CountsAreSaved ==
    \A p \in Procs :
        /\ result[p].hidden_count = Cardinality(SavedWith(p, REJECTED))
        /\ result[p].held_count = Cardinality(SavedWith(p, HELD_FOR_REVIEW))
        /\ result[p].hidden_count + result[p].held_count <= result[p].processed_count

\* C28 (amended): in every state of a batch hidden_count is the number of
\* comments the batch decided to reject and held_count the number it decided
\* to hold, counted at the decision; each is at least the number of records
\* saved with that status, and equal to it, with the sum at most
\* processed_count, once the batch is between comments or has returned and
\* none of its moderation calls or saves raised.
C28_CountsAreDecisions ==
    \A p \in Procs :
        /\ result[p].hidden_count = Cardinality(DecidedWith(p, REJECTED))
        /\ result[p].held_count = Cardinality(DecidedWith(p, HELD_FOR_REVIEW))
        /\ result[p].hidden_count >= Cardinality(SavedWith(p, REJECTED))
        /\ result[p].held_count >= Cardinality(SavedWith(p, HELD_FOR_REVIEW))
        /\ (~ModerationOrSaveFailed(p) /\ ~Decided(p)) =>
              /\ result[p].hidden_count = Cardinality(SavedWith(p, REJECTED))
              /\ result[p].held_count = Cardinality(SavedWith(p, HELD_FOR_REVIEW))
              /\ result[p].hidden_count + result[p].held_count
                    <= result[p].processed_count

\* C28's case: a batch has returned counting one hidden comment although the
\* moderation call for it raised and nothing was saved as rejected.
C28_Witness ==
    \E p \in Procs :
        /\ pc[p] = "returned"
        /\ result[p].hidden_count = 1
        /\ SavedWith(p, REJECTED) = {}
        /\ \E i \in CallsOf(p, "set_moderation_status") :
              ~calls[p][i].ok /\ calls[p][i].status = REJECTED
        /\ result[p].hidden_count + result[p].held_count > result[p].processed_count

\* The number of comments the listings handed to invocation p, video by video.
RECURSIVE FetchedUpTo(_, _)
FetchedUpTo(p, n) ==
    IF n = 0 THEN 0
    ELSE FetchedUpTo(p, n - 1)
           + (IF calls[p][n].op = "get_comment_threads" THEN Len(calls[p][n].ids) ELSE 0)
Fetched(p) == FetchedUpTo(p, Len(calls[p]))

\* The comments invocation p found recorded and passed over.
Skipped(p) ==
    {c \in Listed(p) : /\ \E i \in CallsFor(p, "comment_exists", c) : calls[p][i].ok
                       /\ before[p][c].exists}

\* The entries of p's error list that name a comment.
CommentErrors(p) ==
    {i \in 1..Len(result[p].errors) : result[p].errors[i] # JobError}

\* C29: when a batch has returned and no listing and no existence check
\* raised, processed_count is the number of saves the batch performed, the
\* number of per-comment errors is the number of comments that errored, and
\* processed_count plus the per-comment errors plus the comments passed over as
\* already recorded is the number of comments fetched over all videos.
C29_Accounting ==
    \A p \in Procs :
        (pc[p] = "returned" /\ ~BatchFailed(p)) =>
            /\ result[p].processed_count
                  = Cardinality({i \in CallsOf(p, "save_comment") : calls[p][i].ok})
            /\ result[p].processed_count = Cardinality(SavedBy(p))
            /\ Cardinality(CommentErrors(p))
                  = Cardinality({c \in CommentIds : Failed(p, c)})
            /\ \A c \in CommentIds : Cardinality(ErrorsFor(p, c)) = Cardinality(FailedCalls(p, c))
            /\ result[p].processed_count + Cardinality(CommentErrors(p))
                  + Cardinality(Skipped(p)) = Fetched(p)
            /\ Fetched(p) = Cardinality(Listed(p))

\* C29's case: a batch over two fetched comments has returned having passed
\* over one as already recorded and having saved or errored the other.
C29_Witness ==
    \E p \in Procs :
        /\ pc[p] = "returned" /\ ~BatchFailed(p)
        /\ Fetched(p) = 2
        /\ Cardinality(Skipped(p)) = 1
        /\ Cardinality(CommentErrors(p)) + result[p].processed_count = 1

\* Invocation p's step ends with an existence check that raised.
ExistsRaised(p) ==
    /\ Len(calls'[p]) = Len(calls[p]) + 1
    /\ calls'[p][Len(calls'[p])].op = "comment_exists"
    /\ ~calls'[p][Len(calls'[p])].ok

\* C30: the step in which the existence check raises returns the batch with
\* exactly one batch-level error appended and no per-comment error, changing
\* neither collection; the failed check is the last call of the run, so no
\* later comment of that or a later video is checked, classified, moderated or
\* saved, and the aggregate is not updated.
C30_ExistsFailureEndsBatch ==
    /\ [][\A p \in Procs :
            ExistsRaised(p) =>
                /\ pc'[p] = "returned"
                /\ result'[p] = [result[p] EXCEPT !.errors = Append(@, JobError)]
                /\ comments_collection' = comments_collection
                /\ statistics' = statistics]_vars
    /\ [](\A p \in Procs : \A i \in CallsOf(p, "comment_exists") :
            ~calls[p][i].ok =>
               /\ i = Len(calls[p])
               /\ pc[p] = "returned"
               /\ Cardinality({j \in 1..Len(result[p].errors) :
                                  result[p].errors[j] = JobError}) = 1
               /\ ErrorsFor(p, calls[p][i].ids[1]) = {}
               /\ \A j \in 1..Len(calls[p]) :
                     calls[p][j].op \in PerCommentOps => calls[p][j].ids # calls[p][i].ids)

\* C30's case: the existence check raised for the first of two fetched
\* comments; the batch has returned with the one error and the second comment
\* was neither checked nor classified.
C30_Witness ==
    \E p \in Procs : \E c \in CommentIds :
        /\ pc[p] = "returned"
        /\ LastCallIs(p, "comment_exists") /\ ~LastCall(p).ok
        /\ result[p].errors = <<JobError>>
        /\ Cardinality(Listed(p)) = 2
        /\ c \in Listed(p)
        /\ CallsFor(p, "comment_exists", c) = {}
        /\ ~comments_collection[c].exists

\* Invocation p stands at comment c, which it found without a record.
Reprocessing(p, c) ==
    /\ pc[p] \in {"analyze_comment", "set_moderation_status", "save_comment"}
    /\ comment_id(p) = c

\* Invocation p went through comment c, which had no record, and none of its
\* calls raised.
WentThrough(p, c) ==
    /\ \E i \in CallsFor(p, "comment_exists", c) : calls[p][i].ok
    /\ ~before[p][c].exists
    /\ ~Reprocessing(p, c)
    /\ ~Failed(p, c)

\* C24 (as claimed): a run that records a comment for which YouTube already
\* holds a status set by an earlier run has issued set_moderation_status for
\* it again.
C24_RerunReissues ==
    \A p \in Procs : \A c \in CommentIds :
        (c \in SavedBy(p) /\ moderationStatus[c] # PUBLISHED)
            => \E i \in CallsFor(p, "set_moderation_status", c) : calls[p][i].ok

\* C24 (amended): (a) when the save of a comment raises after its moderation call
\* returned, YouTube holds the status and the store holds no record for it;
\* (b) a run whose existence check finds no record for a comment classifies it
\* next, whatever status YouTube already holds for it, and a record it saves
\* with a status other than published was preceded by a moderation call of
\* that same run; (c) a run that went through such a comment without a raised
\* call has recorded it; (d) under fair scheduling, a run that stands at a
\* comment without a record leads to the comment being recorded, or to a call
\* of that run for the comment raising, or to the instance stopping.
C24_RecoveryByRerun ==
    /\ [](\A p \in Procs : \A c \in CommentIds :
            /\ ((\E i \in CallsFor(p, "set_moderation_status", c) : calls[p][i].ok)
                  /\ (\E i \in CallsFor(p, "save_comment", c) : ~calls[p][i].ok))
                 => /\ ~comments_collection[c].exists
                    /\ moderationStatus[c] # PUBLISHED
            /\ (c \in SavedBy(p) /\ comments_collection[c].moderation_status # PUBLISHED)
                 => \E i \in CallsFor(p, "set_moderation_status", c) :
                        /\ calls[p][i].ok
                        /\ calls[p][i].status = comments_collection[c].moderation_status
                        /\ moderationStatus[c] = calls[p][i].status
            /\ WentThrough(p, c) => (c \in SavedBy(p) /\ comments_collection[c].exists))
    /\ [][\A p \in Procs :
            (/\ pc[p] = "for_comment"
             /\ ~comments_collection[comment_id(p)].exists
             /\ Len(calls'[p]) = Len(calls[p]) + 1
             /\ calls'[p][Len(calls'[p])].ok)
               => /\ pc'[p] = "analyze_comment"
                  /\ ci'[p] = ci[p] /\ vi'[p] = vi[p]]_vars
    /\ \A p \in Procs : \A c \in CommentIds :
          (Reprocessing(p, c) /\ ~comments_collection[c].exists)
             ~> \/ comments_collection[c].exists
                \/ Failed(p, c)
                \/ pc[p] = "crashed"

\* C24's case: an earlier run set a status for the comment at YouTube and
\* left no record; the second run has classified it again and is about to
\* issue set_moderation_status for it once more.
C24_Witness ==
    \E p \in Procs : \E c \in CommentIds :
        /\ runs = 2
        /\ moderationStatus[c] # PUBLISHED
        /\ ~comments_collection[c].exists
        /\ pc[p] = "set_moderation_status"
        /\ comment_id(p) = c
        /\ CallsFor(p, "set_moderation_status", c) = {}

\* Both invocations have returned and neither has yet been answered.
BothReturned == \A p \in Procs : pc[p] = "returned"

\* No call of invocation p raised.
Unfailed(p) == \A i \in 1..Len(calls[p]) : calls[p][i].ok

\* The invocations that classified comment c.
Classifiers(c) == {p \in Procs : CallsFor(p, "analyze_comment", c) # {}}

\* The classifier answered every invocation that asked about c alike.
Deterministic(c) ==
    \A p, q \in Classifiers(c) : ResponseFor(p, c) = ResponseFor(q, c)

\* C22: two overlapping invocations over the same new comment.  (a) A save
\* that returns writes the saving run's own record over whatever is there
\* (last write wins).  (b) When both have returned, for a comment that had no
\* record when either began: a record that exists is the record one of the
\* runs that saved it computed from its own verdict;
\* when the classifier answered alike to all, it is the record a single run
\* would have written; when both runs fetched the comment and no call
\* raised, the record exists.  (c) Under fair scheduling an invocation that
\* has entered the batch returns with a result.
C22_ConcurrentRuns ==
    /\ [][\A p \in Procs :
            (/\ pc[p] = "save_comment"
             /\ Len(calls'[p]) = Len(calls[p]) + 1
             /\ calls'[p][Len(calls'[p])].ok)
               => /\ comments_collection'[comment_id(p)]
                        = ExpectedDoc(comment_id(p), ResponseFor(p, comment_id(p)))
                  /\ \A c \in CommentIds \ {comment_id(p)} :
                        comments_collection'[c] = comments_collection[c]]_vars
    /\ [](BothReturned =>
            \A c \in {d \in CommentIds : \A p \in Procs : ~before[p][d].exists} :
               /\ comments_collection[c].exists =>
                     \E p \in Procs :
                        /\ c \in SavedBy(p)
                        /\ comments_collection[c] = ExpectedDoc(c, ResponseFor(p, c))
               /\ (comments_collection[c].exists /\ Deterministic(c)) =>
                     \A p \in Classifiers(c) :
                        comments_collection[c] = ExpectedDoc(c, ResponseFor(p, c))
               /\ (\A p \in Procs : c \in Listed(p) /\ Unfailed(p)) =>
                     comments_collection[c].exists)
    /\ \A p \in Procs : (pc[p] = "get_my_videos") ~> (pc[p] = "returned")

\* C22's case: both invocations found the comment unrecorded, both classified
\* it with the same answer, both issued the moderation call and both saved;
\* one record exists.
C22_Witness ==
    /\ BothReturned
    /\ \E c \in CommentIds :
          /\ \A p \in Procs :
                /\ c \in SavedBy(p)
                /\ Unfailed(p)
                /\ CallsFor(p, "set_moderation_status", c) # {}
          /\ Deterministic(c)
          /\ comments_collection[c].exists

\* The counters of one aggregate document.
Counters == {"positive_count", "question_count", "constructive_count",
             "blocked_count", "total_processed"}

\* The deltas invocation p hands to update_statistics.
blocked_delta(p) == result[p].hidden_count + result[p].held_count
processed_delta(p) == result[p].processed_count

\* The invocations whose aggregate call returned.
Aggregated == {p \in Procs : \E i \in CallsOf(p, "update_statistics") : calls[p][i].ok}

\* The sum of f over the invocations in S.
RECURSIVE SumOver(_, _)
SumOver(S, f) ==
    IF S = {} THEN 0
    ELSE LET p == CHOOSE q \in S : TRUE IN f[p] + SumOver(S \ {p}, f)

\* C23: with overlapping invocations, (a) every step that changes the Daily
\* Aggregates is the aggregate call of one invocation and adds that
\* invocation's deltas to the values the counters hold at that moment, leaving
\* the other counters and the other dates alone, so no counter ever
\* decreases; (b) when both invocations have returned, today's blocked_count
\* and total_processed hold at least the sum of the deltas of the invocations
\* whose aggregate call returned, and exactly that sum (their prior values
\* being zero) when the two are the first invocations of the service.
C23_AtomicIncrements ==
    /\ [][/\ \A d \in Dates : \A k \in Counters : statistics'[d][k] >= statistics[d][k]
          /\ statistics' # statistics =>
               \E p \in Procs :
                  /\ AtAggregate(p)
                  /\ statistics' = [statistics EXCEPT ![today] =
                        [@ EXCEPT !.blocked_count = @ + blocked_delta(p),
                                  !.total_processed = @ + processed_delta(p)]]]_vars
    /\ [](BothReturned =>
            LET blocked == SumOver(Aggregated, [p \in Procs |-> blocked_delta(p)])
                processed == SumOver(Aggregated, [p \in Procs |-> processed_delta(p)])
            IN  /\ statistics[today].blocked_count >= blocked
                /\ statistics[today].total_processed >= processed
                /\ runs = Cardinality(Procs) =>
                      /\ statistics[today].blocked_count = blocked
                      /\ statistics[today].total_processed = processed)

\* C23's case: two overlapping invocations each blocked and saved the comment
\* and both aggregate calls returned; the aggregate holds both batches' deltas.
C23_Witness ==
    /\ BothReturned
    /\ Aggregated = Procs
    /\ \A p \in Procs : blocked_delta(p) = 1 /\ processed_delta(p) = 1
    /\ statistics[today].blocked_count = 2
    /\ statistics[today].total_processed = 2

\* The sum of a counter over the aggregates of all dates.
RECURSIVE SumDates(_, _)
SumDates(D, k) ==
    IF D = {} THEN 0
    ELSE LET d == CHOOSE e \in D : TRUE IN statistics[d][k] + SumDates(D \ {d}, k)

\* The records saved by an invocation still in progress or returned whose
\* aggregate call has not returned.
Unaggregated ==
    UNION {SavedBy(p) : p \in {q \in Procs :
              \A i \in CallsOf(q, "update_statistics") : ~calls[q][i].ok}}

\* C31: (a) a batch in which a listing or an existence check raised makes no
\* aggregate call, and the step in which the call raised leaves the
\* aggregates as they were; (b) every classification, moderation call and
\* save of a batch is for a comment that had no record when the batch began,
\* so the deltas of a later batch never include a record an earlier batch
\* left behind; (c) hence total_processed, summed over all dates, never
\* exceeds the number of records other than those of a batch that has not
\* aggregated.
C31_AbortedRunNeverCounted ==
    /\ [][\A p \in Procs :
            (/\ Len(calls'[p]) = Len(calls[p]) + 1
             /\ calls'[p][Len(calls'[p])].op \in BatchOps
             /\ ~calls'[p][Len(calls'[p])].ok)
               => /\ statistics' = statistics
                  /\ pc'[p] = "returned"]_vars
    /\ [](\A p \in Procs :
            /\ BatchFailed(p) => CallsOf(p, "update_statistics") = {}
            /\ \A i \in 1..Len(calls[p]) :
                  calls[p][i].op \in PerCommentOps => ~before[p][calls[p][i].ids[1]].exists)
    /\ [](SumDates(Dates, "total_processed") <= Cardinality(Docs \ Unaggregated))

\* C31's case: a batch saved a comment of the first video and was aborted by
\* the listing or the existence check that raised afterwards; it has returned
\* and the aggregates hold nothing.
C31_Witness ==
    \E p \in Procs :
        /\ pc[p] = "returned"
        /\ BatchFailed(p)
        /\ SavedBy(p) # {}
        /\ result[p].processed_count = 1
        /\ SumDates(Dates, "total_processed") = 0
        /\ SumDates(Dates, "blocked_count") = 0

\* C32: the positive, question and constructive counters of every date's
\* aggregate keep their initial value zero in every state, and no step
\* changes them, whatever the categories of the records saved.
C32_CategoryCountersUntouched ==
    /\ [](\A d \in Dates :
            /\ statistics[d].positive_count = 0
            /\ statistics[d].question_count = 0
            /\ statistics[d].constructive_count = 0)
    /\ [][\A d \in Dates :
            /\ statistics'[d].positive_count = statistics[d].positive_count
            /\ statistics'[d].question_count = statistics[d].question_count
            /\ statistics'[d].constructive_count = statistics[d].constructive_count]_vars

\* C32's case: a batch saved a comment classified positive, question or
\* constructive and its aggregate call returned, adding it to total_processed.
C32_Witness ==
    \E p \in Procs : \E c \in SavedBy(p) :
        /\ pc[p] = "returned"
        /\ LastCallIs(p, "update_statistics") /\ LastCall(p).ok
        /\ comments_collection[c].category \in {POSITIVE, QUESTION, CONSTRUCTIVE}
        /\ statistics[today].total_processed >= 1
        /\ statistics[today].positive_count = 0

\* The number of calls to op for comment c over all invocations in progress.
CallsInTotal(op, c) ==
    SumOver(Procs, [p \in Procs |-> Cardinality(CallsFor(p, op, c))])

MarkedReplied(c) ==
    /\ comments_collection[c].exists
    /\ "replied_at" \in DOMAIN comments_collection[c]
    /\ ~comments_collection[c].needs_reply

\* C33: while the answer of a successful reply for a comment is being sent,
\* and ever after, the record of that comment carries the mark: needs_reply
\* false and a replied-at stamp.
C33_ReplyMarkKept ==
    (api.op = "reply" /\ api.status = 200) => MarkedReplied(api.arg)

\* The session id was drawn by a login, has not been logged out and its
\* expiry time has not been reached.
Live(session_id) ==
    /\ session_id \in SessionIds
    /\ session_id <= tokens
    /\ sessions[session_id] # None
    /\ sessions[session_id].expires_at > utcnow

\* The step answers a request of the given kind.
Answers(op) == api = NoRequest /\ api'.op = op

\* C35: (a) the current-user read returns user data only when the cookie is
\* the id of a live session, and then that session's user; (b) a reply made
\* with a cookie that is not a live session posts nothing, marks nothing and
\* is answered 401 once its comment was found; with a live one it is never
\* answered 401; (c) a session appears only in a login, under an id never
\* drawn before, with the expiry one lifetime ahead, never changes and
\* disappears only in the logout carrying its id; (d) an id that was drawn
\* and is not live is never live again, whatever requests follow.
C35_SessionStore ==
    /\ [][Answers("me") =>
            api'.body.user = IF Live(cookie) THEN User(cookie) ELSE None]_vars
    /\ [][Answers("reply") =>
            IF Live(cookie)
            THEN api'.status # 401
            ELSE /\ api'.status \in {401, 404, 500}
                 /\ \A i \in 1..Len(api'.calls) : api'.calls[i].op = "get_comment"
                 /\ comments_collection' = comments_collection
                 /\ (comments_collection[api'.arg].exists /\ api'.calls[1].ok)
                       => api'.status = 401]_vars
    /\ [][\A sid \in SessionIds :
            sessions'[sid] # sessions[sid] =>
               \/ /\ sessions[sid] = None
                  /\ sid = tokens + 1 /\ tokens' = sid
                  /\ api'.op = "callback"
                  /\ sessions'[sid] = Session(sid, utcnow + SessionLifetime)
               \/ /\ sessions'[sid] = None
                  /\ cookie = sid
                  /\ api'.op = "logout"]_vars
    /\ [](\A sid \in SessionIds : sessions[sid] # None => sid <= tokens)
    /\ [][\A sid \in SessionIds :
            (sid <= tokens /\ ~Live(sid)) => ~Live(sid)']_vars

\* C35's case: a reply for a recorded comment was made with the cookie of a
\* session that a login created and that has expired, and was refused as
\* unauthenticated.
C35_Witness ==
    /\ api.op = "reply" /\ api.status = 401
    /\ cookie \in SessionIds
    /\ sessions[cookie] # None
    /\ sessions[cookie].expires_at <= utcnow
    /\ comments_collection[api.arg].exists

====
